---- MODULE Spec2Model ----
(***************************************************************************)
(* Search, scoring and autocomplete of the senior-living directory site.   *)
(*                                                                         *)
(*   Spec        the autocomplete sessions: the debounced session of       *)
(*               static/js/search.js (initializeAutocomplete) and the      *)
(*               site-wide suggestion box of public/js/search.js           *)
(*               (initSearchFunctionality)                                 *)
(*   SpecFind    findMatches / getEditDistance as pure functions           *)
(*   SpecFilter  the filter predicates of the browser page                 *)
(*               (filterSearchResults) and of the /api/search endpoint     *)
(*                                                                         *)
(* JavaScript strings are TLA+ strings; s.charAt(i-1) is SubSeq(s, i, i).  *)
(***************************************************************************)
EXTENDS Integers, Sequences, FiniteSets, TLC

VARIABLES
    page,              \* "search": static/js/search.js runs; "site": the site-wide
                       \* box of public/js/search.js runs; "left": navigated away
                       \* "off": no page (SpecFind, SpecFilter)
    inputValue,        \* searchInput.value
    timers,            \* pending setTimeout callbacks of debounce
    timeout,           \* debounce's closure variable `timeout` (0: undefined)
    display,           \* autocompleteContainer.style.display
    suggestions,       \* the .autocomplete-suggestion children, as cities
    currentFocus,      \* initializeAutocomplete's currentFocus
    sinceInput,        \* time since the last input event, saturating
    inputsSinceEval,   \* input events since processInput last ran
    lastInput,         \* the value the input listener last handed to processInput
    escaped,           \* Escape has closed the list since processInput last ran
    lastEvent,         \* the handler that ran last and what it did
    active,            \* searchSuggestions has class 'active'
    suggestionItems,   \* the .suggestion-item children, as suggestionsData indices
    selectedSuggestionIndex,
    fstore,            \* SpecFind: allCityData
    fquery,            \* SpecFind: the query handed to findMatches
    fresult,           \* SpecFind: findMatches' return value (indices into fstore)
    fscored,           \* SpecFind: findMatches' scoredMatches array at the return
    fpc,               \* SpecFind: "call" before, "done" after
    rec,               \* SpecFilter: the record under test
    req,               \* SpecFilter: the request parameters
    verdict,           \* SpecFilter: what each implementation decided
    sdata,             \* SpecServe: the cities and facilities of the data files
    sreq,              \* SpecServe: the request's query-string parameters
    allResults,        \* SpecServe: /api/search's allResults array at the return
    apiResponse,       \* SpecServe: <<>>, then <<the response of /api/search>>
    netlifyResponse,   \* SpecServe: <<>>, then <<the Netlify function's response>>
    hasSearchInput,    \* SpecLoad: document.getElementById('search-input') # null
    cachedCityData,    \* SpecLoad: allCityData of static/js/search.js
    loadPc,            \* SpecLoad: where loadCityData's promise chain stands
    pending,           \* SpecLoad: the promise chains of performSearch in flight
    searches,          \* SpecLoad: calls of performSearch so far
    assigned,          \* SpecLoad: the assignments to allCityData, in order
    fetchLog,          \* SpecLoad: the URLs loadCityData has fetched, in order
    files,             \* SpecSource: the state of each data file on the server
    sourceReq,         \* SpecSource: the request's query-string parameters
    apiStore,          \* SpecSource: cityData and facilityData of search_api.js
    sourceResponse,    \* SpecSource: each server variant's response, once given
    editA,             \* SpecDistance: the first argument of getEditDistance
    editB,             \* SpecDistance: its second argument
    editDistance,      \* SpecDistance: <<>>, then <<its return value>>
    rSize,             \* SpecResults: the number of cities in the record set
    searchValue,       \* SpecResults: searchInput.value
    currentPage,       \* SpecResults: currentPage
    totalResults,      \* SpecResults: totalResults
    shown,             \* SpecResults: <<>>, then <<what renderSearchResults last rendered>>
    controls,          \* SpecResults: the pagination containers in resultsContainer
    inflight,          \* SpecResults: the requests of performSearch not yet settled
    issued,            \* SpecResults: calls of performSearch so far
    cacheLoaded,       \* SpecResults: allCityData.length > 0
    resultEvent        \* SpecResults: the handler that ran last and what it did

uiVars == <<page, inputValue, timers, timeout, display, suggestions, currentFocus,
            sinceInput, inputsSinceEval, lastInput, escaped, lastEvent, active,
            suggestionItems, selectedSuggestionIndex>>
findVars == <<fstore, fquery, fresult, fscored, fpc>>
filterVars == <<rec, req, verdict>>
serveVars == <<sdata, sreq, allResults, apiResponse, netlifyResponse>>
loadVars == <<hasSearchInput, cachedCityData, loadPc, pending, searches, assigned,
              fetchLog>>
sourceVars == <<files, sourceReq, apiStore, sourceResponse>>
editVars == <<editA, editB, editDistance>>
resultVars == <<rSize, searchValue, currentPage, totalResults, shown, controls,
                inflight, issued, cacheLoaded, resultEvent>>
vars == <<uiVars, findVars, filterVars, serveVars, loadVars, sourceVars, editVars,
          resultVars>>

----------------------------------------------------------------------------
(* String primitives of JavaScript                                         *)

UpperAlpha == "ABCDEFGHIJKLMNOPQRSTUVWXYZ"
LowerAlpha == "abcdefghijklmnopqrstuvwxyz"

charAt(s, i) == SubSeq(s, i, i)

\* The lower-case letter of each upper-case letter.
LowerOf ==
    [c \in {charAt(UpperAlpha, i) : i \in 1..Len(UpperAlpha)} |->
        charAt(LowerAlpha, CHOOSE i \in 1..Len(UpperAlpha) : charAt(UpperAlpha, i) = c)]

LowerChar(c) == IF c \in DOMAIN LowerOf THEN LowerOf[c] ELSE c

RECURSIVE toLowerCase(_)
toLowerCase(s) ==
    IF s = "" THEN ""
    ELSE LowerChar(charAt(s, 1)) \o toLowerCase(SubSeq(s, 2, Len(s)))

IsSpace(c) == c = " "

RECURSIVE trimStart(_)
trimStart(s) ==
    IF s # "" /\ IsSpace(charAt(s, 1)) THEN trimStart(SubSeq(s, 2, Len(s))) ELSE s

RECURSIVE trimEnd(_)
trimEnd(s) ==
    IF s # "" /\ IsSpace(charAt(s, Len(s))) THEN trimEnd(SubSeq(s, 1, Len(s) - 1)) ELSE s

trim(s) == trimEnd(trimStart(s))

startsWith(s, q) == Len(q) <= Len(s) /\ SubSeq(s, 1, Len(q)) = q

includes(s, q) ==
    \E i \in 0..(Len(s) - Len(q)) : SubSeq(s, i + 1, i + Len(q)) = q

\* s.split(/\s+/): the pieces between maximal runs of white space; a leading or
\* trailing run leaves an empty first or last piece, and "" splits to [""].
RECURSIVE splitFrom(_, _, _)
splitFrom(s, i, cur) ==
    IF i > Len(s) THEN <<cur>>
    ELSE IF IsSpace(charAt(s, i))
         THEN LET rest == {j \in (i + 1)..Len(s) : ~IsSpace(charAt(s, j))}
                  nxt  == IF rest = {} THEN Len(s) + 1
                          ELSE CHOOSE j \in rest : \A k \in rest : j <= k
              IN  <<cur>> \o splitFrom(s, nxt, "")
         ELSE splitFrom(s, i + 1, cur \o charAt(s, i))

splitWords(s) == splitFrom(s, 1, "")

Min2(x, y) == IF x <= y THEN x ELSE y
Min3NoDeletion(x, y, z) == Min2(x, y)

Min3(x, y, z) == Min2(x, Min2(y, z))

----------------------------------------------------------------------------
(* getEditDistance: the (|b|+1) x (|a|+1) matrix, filled row by row.       *)
(* A row is a sequence; matrix[i][j] is row i's element j + 1.             *)

RECURSIVE fillRow(_, _, _, _, _)
fillRow(a, b, prev, i, cur) ==
    LET j == Len(cur) IN
    IF j > Len(a) THEN cur
    ELSE LET cell == IF charAt(b, i) = charAt(a, j)
                     THEN prev[j]
                     ELSE Min3(prev[j] + 1, cur[j] + 1, prev[j + 1] + 1)
         IN  fillRow(a, b, prev, i, Append(cur, cell))

RECURSIVE fillMatrix(_, _, _, _)
fillMatrix(a, b, prev, i) ==
    IF i > Len(b) THEN prev
    ELSE fillMatrix(a, b, fillRow(a, b, prev, i, <<i>>), i + 1)

getEditDistance(a, b) ==
    IF Len(a) = 0 THEN Len(b)
    ELSE IF Len(b) = 0 THEN Len(a)
    ELSE LET row0 == [j \in 1..(Len(a) + 1) |-> j - 1]
         IN  fillMatrix(a, b, row0, 1)[Len(a) + 1]

----------------------------------------------------------------------------
(* findMatches (static/js/search.js)                                       *)

W_EXACT == 100
W_PREFIX == 50
W_CONTAINS == 25
W_STATE == 15
W_ABBR == 10
W_TOKEN_EXACT == 30
W_TOKEN_PREFIX == 20
W_TOKEN_CONTAINS == 10
W_WORD_EXACT == 40
W_WORD_PREFIX == 30
W_FUZZY == 5
FuzzyMinLength == 3
FuzzyMaxDistance == 2
W_POPULATION == 5
PopulationThreshold == 1000000
W_FACILITIES == 3
FacilityThreshold == 50
TopK == 10

\* A city of city-index.json. An absent name, state or state_abbr is "" (the code
\* reads them as `city.name || ''`), an absent population or facility_count is 0
\* (undefined > n is false), absent search_tokens are <<>>.
City(name, state, abbr, population, facilities, tokens) ==
    [name |-> name, state |-> state, state_abbr |-> abbr, population |-> population,
     facility_count |-> facilities, search_tokens |-> tokens]

RECURSIVE SumSeq(_)
SumSeq(s) == IF s = <<>> THEN 0 ELSE Head(s) + SumSeq(Tail(s))

RECURSIVE Flatten(_)
Flatten(ss) == IF ss = <<>> THEN <<>> ELSE Head(ss) \o Flatten(Tail(ss))

When(cond, w) == IF cond THEN <<w>> ELSE <<>>

\* The weight one search token adds (lines 428-439): the first branch that holds.
tokenSignal(token, query) ==
    IF token = query THEN <<W_TOKEN_EXACT>>
    ELSE IF startsWith(token, query) THEN <<W_TOKEN_PREFIX>>
    ELSE IF includes(token, query) THEN <<W_TOKEN_CONTAINS>>
    ELSE <<>>

wordSignalNone(word, query) == <<>>

\* The weight one word of the name adds (lines 443-452).
wordSignal(word, query) ==
    IF word = query THEN <<W_WORD_EXACT>>
    ELSE IF startsWith(word, query) THEN <<W_WORD_PREFIX>>
    ELSE <<>>

\* The weights of the text signals that fire for a city, in the order of the code:
\* each is one `score += w; matched = true`.
textSignals(city, query) ==
    LET cityName  == toLowerCase(city.name)
        stateName == toLowerCase(city.state)
        stateAbbr == toLowerCase(city.state_abbr)
        words     == splitWords(cityName)
    IN  When(cityName = query, W_EXACT)
        \o When(startsWith(cityName, query), W_PREFIX)
        \o When(includes(cityName, query), W_CONTAINS)
        \o When(includes(stateName, query), W_STATE)
        \o When(stateAbbr = query, W_ABBR)
        \o Flatten([i \in 1..Len(city.search_tokens) |->
                        tokenSignal(city.search_tokens[i], query)])
        \o Flatten([i \in 1..Len(words) |-> wordSignal(words[i], query)])

fuzzySignalUnguarded(city, query, matched) ==
    When(Len(query) > FuzzyMinLength
            /\ getEditDistance(toLowerCase(city.name), query) <= FuzzyMaxDistance,
         W_FUZZY)

\* The fuzzy signal (lines 454-461), given whether a text signal matched.
fuzzySignal(city, query, matched) ==
    When(~matched /\ Len(query) > FuzzyMinLength
            /\ getEditDistance(toLowerCase(city.name), query) <= FuzzyMaxDistance,
         W_FUZZY)

\* The boosts (lines 464-466), given whether the city matched.
boostSignals(city, matched) ==
    IF matched
    THEN When(city.population > PopulationThreshold, W_POPULATION)
         \o When(city.facility_count > FacilityThreshold, W_FACILITIES)
    ELSE <<>>

isMatchedAlways(text, fuzzy) == TRUE

\* The flag `matched` at line 464, given the text and fuzzy signals that fired.
isMatched(text, fuzzy) == text # <<>> \/ fuzzy # <<>>

\* One iteration of allCityData.forEach: the city's score and whether it matched.
scoreCity(city, query) ==
    LET text    == textSignals(city, query)
        fuzzy   == fuzzySignal(city, query, text # <<>>)
        matched == isMatched(text, fuzzy)
        boosts  == boostSignals(city, matched)
    IN  [score   |-> SumSeq(text) + SumSeq(fuzzy) + SumSeq(boosts),
         matched |-> matched]

\* scoredMatches: the matched cities in store order, each with its score. A city is
\* named by its index in the store (the object reference of the code).
scoredMatches(data, query) ==
    LET scored == [i \in 1..Len(data) |->
                      [city |-> i, score |-> scoreCity(data[i], query).score,
                       matched |-> scoreCity(data[i], query).matched]]
        keep(e) == e.matched
    IN  SelectSeq(scored, keep)

insertByScoreTiesFirst(sorted, e) ==
    LET k == Cardinality({i \in 1..Len(sorted) : sorted[i].score > e.score})
    IN  SubSeq(sorted, 1, k) \o <<e>> \o SubSeq(sorted, k + 1, Len(sorted))

\* Array.prototype.sort with (a, b) => b.score - a.score: a stable sort
\* (ECMAScript 2019), here by insertion behind the entries that rank no lower.
insertByScore(sorted, e) ==
    LET k == Cardinality({i \in 1..Len(sorted) : sorted[i].score >= e.score})
    IN  SubSeq(sorted, 1, k) \o <<e>> \o SubSeq(sorted, k + 1, Len(sorted))

RECURSIVE sortByScore(_)
sortByScore(s) ==
    IF s = <<>> THEN <<>>
    ELSE insertByScore(sortByScore(SubSeq(s, 1, Len(s) - 1)), s[Len(s)])

\* .slice(0, n)
sliceTop(s, n) == SubSeq(s, 1, Min2(n, Len(s)))

\* The scoredMatches array once sorted (the sort is in place).
rankedMatches(data, rawQuery) ==
    sortByScore(scoredMatches(data, trim(toLowerCase(rawQuery))))

\* findMatches(query) over allCityData = data: the indices of the returned cities.
findMatches(data, rawQuery) ==
    LET ranked == sliceTop(rankedMatches(data, rawQuery), TopK)
    IN  [i \in 1..Len(ranked) |-> ranked[i].city]

----------------------------------------------------------------------------
----------------------------------------------------------------------------
(* The autocomplete session of static/js/search.js                         *)

DebounceWait == 200
MinQueryLength == 2
MaxBurst == 3

\* The granularity of time in the model: half the debounce wait.
TickMs == DebounceWait \div 2

\* allCityData of the session (loaded once, before initializeAutocomplete).
allCityData ==
    << City("Austin", "Texas", "TX", 961855, 42, <<>>),
       City("Houston", "Texas", "TX", 2304580, 85, <<>>),
       City("Boston", "Massachusetts", "MA", 675647, 30, <<>>) >>

\* What the user may leave in the search input after one edit.
RawInputs == {"a", "Au ", "tex", "zz"}

suggestionLabelNameOnly(city) == city.name

\* `${cityName}, ${stateName}` of a suggestion (its click handler).
suggestionLabel(city) == city.name \o ", " \o city.state

\* The calls of processInput that are scheduled: timer and argument.
pendingCalls == {[id |-> t.id, value |-> t.value] : t \in timers}

\* The state a handler found, kept by lastEvent.
Snapshot ==
    [display |-> display, currentFocus |-> currentFocus, suggestions |-> suggestions,
     inputValue |-> inputValue, pending |-> pendingCalls, escaped |-> escaped,
     active |-> active,
     suggestionItems |-> suggestionItems,
     selectedSuggestionIndex |-> selectedSuggestionIndex]

\* lastEvent: kind and key name the handler, pre is the state it found, committed
\* the suggestion it committed (0: none), submitted whether the browser went on to
\* submit the form (the key's default action, not prevented), value the argument
\* of processInput, inputs and quiet the input events and the time behind it.
Event(kind, key, committed, submitted, value, inputs, quiet) ==
    [kind |-> kind, key |-> key, pre |-> Snapshot, committed |-> committed,
     submitted |-> submitted, value |-> value, inputs |-> inputs, quiet |-> quiet]

clearTimeoutNone(ts, id) == ts

\* clearTimeout(id)
clearTimeout(ts, id) == {t \in ts : t.id # id}

\* The handle setTimeout returns: a positive integer that names no active timer
\* (the HTML standard leaves the choice to the browser; here the least one).
freshTimerId(ts) == CHOOSE id \in 1..(Cardinality(ts) + 1) : \A t \in ts : t.id # id

\* setTimeout(() => func(value), wait), returning id
setTimeout(ts, id, value, wait) == ts \cup {[id |-> id, value |-> value, due |-> wait]}

\* What a handler of the search page leaves alone.
publicVarsIdle ==
    UNCHANGED <<active, suggestionItems, selectedSuggestionIndex, findVars, filterVars,
                serveVars, loadVars, sourceVars, editVars, resultVars>>

\* The input listener (lines 335-338) and the debounced wrapper (lines 311-314).
StaticInput(v) ==
    /\ page = "search"
    /\ v # inputValue
    /\ inputsSinceEval < MaxBurst
    /\ inputValue' = v
    /\ LET cleared == clearTimeout(timers, timeout)
           id      == freshTimerId(cleared)
       IN  /\ timers' = setTimeout(cleared, id, trim(toLowerCase(v)), DebounceWait)
           /\ timeout' = id
    /\ sinceInput' = 0
    /\ inputsSinceEval' = inputsSinceEval + 1
    /\ lastInput' = trim(toLowerCase(v))
    /\ lastEvent' = Event("input", "", 0, FALSE, trim(toLowerCase(v)),
                          inputsSinceEval + 1, 0)
    /\ UNCHANGED <<page, display, suggestions, currentFocus, escaped>>
    /\ publicVarsIdle

\* Time passes: every pending timer comes TickMs closer.
Tick ==
    /\ page = "search"
    /\ sinceInput < DebounceWait \/ \E t \in timers : t.due > 0
    /\ timers' = {[t EXCEPT !.due = IF t.due > TickMs THEN t.due - TickMs ELSE 0] :
                    t \in timers}
    /\ sinceInput' = Min2(sinceInput + TickMs, DebounceWait)
    /\ UNCHANGED <<page, inputValue, timeout, display, suggestions, currentFocus,
                   inputsSinceEval, lastInput, escaped, lastEvent>>
    /\ publicVarsIdle

returnsEarlyNever(value) == FALSE

\* if (!value || value.length < 2) return; (line 322)
returnsEarly(value) == value = "" \/ Len(value) < MinQueryLength

\* A timer fires: the body of processInput (lines 318-332).
TimerFires(t) ==
    /\ page = "search"
    /\ t \in timers
    /\ t.due = 0
    /\ timers' = timers \ {t}
    /\ LET matches == IF returnsEarly(t.value)
                      THEN <<>>
                      ELSE findMatches(allCityData, t.value)
       IN  IF Len(matches) > 0
           THEN /\ display' = "block"
                /\ suggestions' = matches
                /\ currentFocus' = -1
           ELSE /\ display' = "none"
                /\ suggestions' = <<>>
                /\ UNCHANGED currentFocus
    /\ inputsSinceEval' = 0
    /\ escaped' = FALSE
    /\ lastEvent' = Event("timer", "", 0, FALSE, t.value, inputsSinceEval, sinceInput)
    /\ UNCHANGED <<page, inputValue, timeout, sinceInput, lastInput>>
    /\ publicVarsIdle

\* The click listener of a suggestion (lines 531-536), then the document's click
\* listener, which the click bubbles to (lines 371-375).
commitSuggestion(i) ==
    /\ inputValue' = suggestionLabel(allCityData[suggestions[i]])
    /\ display' = "none"

focusDownNoWrap(focus, n) == focus + 1

\* Down (lines 346-350)
focusDown(focus, n) == IF focus + 1 >= n THEN 0 ELSE focus + 1

\* Up (lines 352-356)
focusUp(focus, n) == IF focus - 1 < 0 THEN n - 1 ELSE focus - 1

Keys == {"Down", "Up", "Enter", "Escape"}

enterActiveAlways(d) == TRUE

\* Enter is the listener's only while the list is shown (line 358).
enterActive(d) == d = "block"

\* The keydown listener (lines 341-368). A key the listener does not prevent has
\* its default action; for Enter that is the submission of the search form.
StaticKeydown(key) ==
    /\ page = "search"
    /\ key \in Keys
    /\ LET n == Len(suggestions) IN
       IF n = 0
       THEN /\ lastEvent' = Event("keydown", key, 0, key = "Enter", "", 0, 0)
            /\ UNCHANGED <<inputValue, display, currentFocus, escaped>>
       ELSE IF key = "Down"
       THEN /\ currentFocus' = focusDown(currentFocus, n)
            /\ lastEvent' = Event("keydown", key, 0, FALSE, "", 0, 0)
            /\ UNCHANGED <<inputValue, display, escaped>>
       ELSE IF key = "Up"
       THEN /\ currentFocus' = focusUp(currentFocus, n)
            /\ lastEvent' = Event("keydown", key, 0, FALSE, "", 0, 0)
            /\ UNCHANGED <<inputValue, display, escaped>>
       ELSE IF key = "Enter" /\ enterActive(display)
       THEN IF currentFocus > -1 /\ currentFocus < n
            THEN /\ commitSuggestion(currentFocus + 1)
                 /\ lastEvent' = Event("keydown", key, suggestions[currentFocus + 1],
                                       FALSE, "", 0, 0)
                 /\ UNCHANGED <<currentFocus, escaped>>
            ELSE /\ lastEvent' = Event("keydown", key, 0, FALSE, "", 0, 0)
                 /\ UNCHANGED <<inputValue, display, currentFocus, escaped>>
       ELSE IF key = "Escape"
       THEN /\ display' = "none"
            /\ escaped' = TRUE
            /\ lastEvent' = Event("keydown", key, 0, FALSE, "", 0, 0)
            /\ UNCHANGED <<inputValue, currentFocus>>
       ELSE /\ lastEvent' = Event("keydown", key, 0, key = "Enter", "", 0, 0)
            /\ UNCHANGED <<inputValue, display, currentFocus, escaped>>
    /\ UNCHANGED <<page, timers, timeout, suggestions, sinceInput, inputsSinceEval,
                   lastInput>>
    /\ publicVarsIdle

\* Where a click may land: the search input, the suggestion list outside any
\* suggestion, anywhere else on the page.
ClickTargets == {"input", "list", "outside"}

hidesOnClickNever(target) == FALSE

\* The document's click listener (lines 371-375): e.target !== searchInput.
hidesOnClick(target) == target # "input"

\* A click on the page, not on a suggestion. The list can be clicked only while
\* it is shown.
StaticClick(target) ==
    /\ page = "search"
    /\ target \in ClickTargets
    /\ target = "list" => display = "block"
    /\ display' = IF hidesOnClick(target) THEN "none" ELSE display
    /\ lastEvent' = Event("click", target, 0, FALSE, "", 0, 0)
    /\ UNCHANGED <<page, inputValue, timers, timeout, suggestions, currentFocus,
                   sinceInput, inputsSinceEval, lastInput, escaped>>
    /\ publicVarsIdle

\* A click on the i-th suggestion of the shown list.
StaticClickSuggestion(i) ==
    /\ page = "search"
    /\ display = "block"
    /\ i \in 1..Len(suggestions)
    /\ commitSuggestion(i)
    /\ lastEvent' = Event("click", "suggestion", suggestions[i], FALSE, "", 0, 0)
    /\ UNCHANGED <<page, timers, timeout, suggestions, currentFocus, sinceInput,
                   inputsSinceEval, lastInput, escaped>>
    /\ publicVarsIdle

----------------------------------------------------------------------------
(* The site-wide suggestion box of public/js/search.js                     *)
(* (initSearchFunctionality)                                               *)

Suggestion(type, name) == [type |-> type, name |-> name]

\* suggestionsData (lines 611-622)
suggestionsData ==
    << Suggestion("city", "New York, NY"),
       Suggestion("city", "Los Angeles, CA"),
       Suggestion("city", "Chicago, IL"),
       Suggestion("city", "Houston, TX"),
       Suggestion("city", "Phoenix, AZ"),
       Suggestion("city", "Philadelphia, PA"),
       Suggestion("facility", "Sunrise Senior Living of Phoenix"),
       Suggestion("facility", "Golden Years Retirement Home"),
       Suggestion("facility", "Autumn Leaves of Chicago"),
       Suggestion("facility", "Brookdale Battery Park") >>

MaxSuggestions == 5

SiteRawInputs == {"", "ph", "Chicago", "o", "zz"}

\* suggestionsData.filter(...).slice(0, 5), as indices into suggestionsData
matchingSuggestions(rawQuery) ==
    LET query == toLowerCase(rawQuery)
        all   == [i \in 1..Len(suggestionsData) |-> i]
        hit(i) == includes(toLowerCase(suggestionsData[i].name), query)
    IN  sliceTop(SelectSeq(all, hit), MaxSuggestions)

\* showSuggestions(query) (lines 627-677)
showSuggestions(query) ==
    IF query = ""
    THEN /\ active' = FALSE
         /\ suggestionItems' = <<>>
         /\ UNCHANGED selectedSuggestionIndex
    ELSE IF Len(matchingSuggestions(query)) = 0
    THEN /\ active' = FALSE
         /\ UNCHANGED <<suggestionItems, selectedSuggestionIndex>>
    ELSE /\ suggestionItems' = matchingSuggestions(query)
         /\ active' = TRUE
         /\ selectedSuggestionIndex' = -1

\* What a handler of the site-wide box leaves alone.
staticVarsIdle ==
    UNCHANGED <<timers, timeout, display, suggestions, currentFocus, sinceInput,
                inputsSinceEval, lastInput, escaped, findVars, filterVars,
                serveVars, loadVars, sourceVars, editVars, resultVars>>

\* The input listener (lines 680-682)
SiteInput(v) ==
    /\ page = "site"
    /\ v # inputValue
    /\ inputValue' = v
    /\ showSuggestions(v)
    /\ lastEvent' = Event("input", "", 0, FALSE, v, 0, 0)
    /\ UNCHANGED page
    /\ staticVarsIdle

\* The focus listener (lines 685-689)
SiteFocus ==
    /\ page = "site"
    /\ IF inputValue # ""
       THEN showSuggestions(inputValue)
       ELSE UNCHANGED <<active, suggestionItems, selectedSuggestionIndex>>
    /\ lastEvent' = Event("focus", "", 0, FALSE, inputValue, 0, 0)
    /\ UNCHANGED <<page, inputValue>>
    /\ staticVarsIdle

deactivatesOnClickNever(target) == FALSE

\* The document's click listener (lines 692-696)
deactivatesOnClick(target) == target # "input" /\ target # "list"

\* A click on the page, not on a suggestion. The list can be clicked only while
\* it is shown.
SiteClick(target) ==
    /\ page = "site"
    /\ target \in ClickTargets
    /\ target = "list" => active
    /\ active' = IF deactivatesOnClick(target) THEN FALSE ELSE active
    /\ lastEvent' = Event("click", target, 0, FALSE, "", 0, 0)
    /\ UNCHANGED <<page, inputValue, suggestionItems, selectedSuggestionIndex>>
    /\ staticVarsIdle

\* The click listener of a suggestion (lines 664-670): the browser leaves the page.
navigate(i) ==
    /\ page' = "left"
    /\ UNCHANGED <<inputValue, active, suggestionItems, selectedSuggestionIndex>>

\* A click on the i-th suggestion of the shown list.
SiteClickSuggestion(i) ==
    /\ page = "site"
    /\ active
    /\ i \in 1..Len(suggestionItems)
    /\ navigate(i)
    /\ lastEvent' = Event("click", "suggestion", suggestionItems[i], FALSE, "", 0, 0)
    /\ staticVarsIdle

\* ArrowDown (line 707)
selectDown(index, n) == (index + 1) % n

\* ArrowUp (line 713)
selectUp(index, n) == IF index <= 0 THEN n - 1 ELSE index - 1

\* The keydown listener (lines 699-721)
SiteKeydown(key) ==
    /\ page = "site"
    /\ key \in Keys
    /\ LET n == Len(suggestionItems) IN
       IF n = 0
       THEN /\ lastEvent' = Event("keydown", key, 0, key = "Enter", "", 0, 0)
            /\ UNCHANGED <<page, inputValue, active, suggestionItems,
                           selectedSuggestionIndex>>
       ELSE IF key = "Down"
       THEN /\ selectedSuggestionIndex' = selectDown(selectedSuggestionIndex, n)
            /\ lastEvent' = Event("keydown", key, 0, FALSE, "", 0, 0)
            /\ UNCHANGED <<page, inputValue, active, suggestionItems>>
       ELSE IF key = "Up"
       THEN /\ selectedSuggestionIndex' = selectUp(selectedSuggestionIndex, n)
            /\ lastEvent' = Event("keydown", key, 0, FALSE, "", 0, 0)
            /\ UNCHANGED <<page, inputValue, active, suggestionItems>>
       ELSE IF key = "Enter" /\ selectedSuggestionIndex >= 0
       THEN /\ navigate(selectedSuggestionIndex + 1)
            /\ lastEvent' = Event("keydown", key,
                                  suggestionItems[selectedSuggestionIndex + 1],
                                  FALSE, "", 0, 0)
       ELSE /\ lastEvent' = Event("keydown", key, 0, key = "Enter", "", 0, 0)
            /\ UNCHANGED <<page, inputValue, active, suggestionItems,
                           selectedSuggestionIndex>>
    /\ staticVarsIdle

----------------------------------------------------------------------------
(* The autocomplete sessions                                               *)

findVarsOff ==
    fstore = <<>> /\ fquery = "" /\ fresult = <<>> /\ fscored = <<>> /\ fpc = "off"
filterVarsOff == rec = <<>> /\ req = <<>> /\ verdict = <<>>
serveVarsOff ==
    /\ sdata = <<>> /\ sreq = <<>> /\ allResults = <<>>
    /\ apiResponse = <<>> /\ netlifyResponse = <<>>
loadVarsOff ==
    /\ hasSearchInput = FALSE /\ cachedCityData = <<>> /\ loadPc = "off"
    /\ pending = {} /\ searches = 0 /\ assigned = <<>> /\ fetchLog = <<>>
sourceVarsOff ==
    files = <<>> /\ sourceReq = <<>> /\ apiStore = <<>> /\ sourceResponse = <<>>

editVarsOff == editA = "" /\ editB = "" /\ editDistance = <<>>

resultVarsOff ==
    /\ rSize = 0 /\ searchValue = "" /\ currentPage = 0 /\ totalResults = 0
    /\ shown = <<>> /\ controls = <<>> /\ inflight = {} /\ issued = 0
    /\ cacheLoaded = FALSE /\ resultEvent = <<>>

sessionInit ==
    /\ inputValue = ""
    /\ timers = {}
    /\ timeout = 0
    /\ display = ""
    /\ suggestions = <<>>
    /\ currentFocus = -1
    /\ sinceInput = DebounceWait
    /\ inputsSinceEval = 0
    /\ lastInput = ""
    /\ escaped = FALSE
    /\ active = FALSE
    /\ suggestionItems = <<>>
    /\ selectedSuggestionIndex = -1
    /\ lastEvent = Event("init", "", 0, FALSE, "", 0, 0)

Init ==
    /\ page \in {"search", "site"}
    /\ sessionInit
    /\ findVarsOff
    /\ filterVarsOff
    /\ serveVarsOff
    /\ loadVarsOff
    /\ sourceVarsOff
    /\ editVarsOff
    /\ resultVarsOff

Next ==
    \/ \E v \in RawInputs : StaticInput(v)
    \/ Tick
    \/ \E t \in timers : TimerFires(t)
    \/ \E key \in Keys : StaticKeydown(key)
    \/ \E target \in ClickTargets : StaticClick(target)
    \/ \E i \in 1..Len(suggestions) : StaticClickSuggestion(i)
    \/ \E v \in SiteRawInputs : SiteInput(v)
    \/ SiteFocus
    \/ \E target \in ClickTargets : SiteClick(target)
    \/ \E i \in 1..Len(suggestionItems) : SiteClickSuggestion(i)
    \/ \E key \in Keys : SiteKeydown(key)

Spec == Init /\ [][Next]_vars

----------------------------------------------------------------------------
(* findMatches as a function of the store and the query (SpecFind)         *)

MaxStore == 12

\* Cities of a city-index.json: the store of a run is a window of it.
CityIndex ==
    << City("San Antonio", "Texas", "TX", 1434625, 120, <<>>),
       City("San Diego", "California", "CA", 1386932, 95, <<>>),
       City("Santa Ana", "California", "CA", 310227, 20, <<>>),
       City("San Jose", "California", "CA", 1013240, 40, <<>>),
       City("Santa Fe", "New Mexico", "NM", 87505, 12, <<>>),
       City("San Mateo", "California", "CA", 105661, 18, <<>>),
       City("Sandy", "Utah", "UT", 96904, 9, <<>>),
       City("Kansas City", "Missouri", "MO", 508090, 60, <<>>),
       City("Wichita", "Kansas", "KS", 397532, 30, <<>>),
       City("Austin", "Texas", "TX", 961855, 42, <<>>),
       City("Boston", "Massachusetts", "MA", 675647, 30, <<"beantown">>),
       City("Houston", "Texas", "TX", 2304580, 85, <<>>),
       City("San Marcos", "Texas", "TX", 67553, 7, <<"san marcos", "tx">>),
       City("Susanville", "California", "CA", 16728, 2, <<>>) >>

FindQueries == {"a", "San ", "austin", "bostn", "tx", "zzzz", "hoston", "sdy"}

\* The n cities of the index from the r-th on, cyclically, in index order or in
\* the reverse of it.
storeWindow(r, n, reversed) ==
    LET at(i) == CityIndex[((r + i - 1) % Len(CityIndex)) + 1]
    IN  [i \in 1..n |-> IF reversed THEN at(n + 1 - i) ELSE at(i)]

InitFind ==
    /\ page = "off"
    /\ sessionInit
    /\ filterVarsOff
    /\ serveVarsOff
    /\ loadVarsOff
    /\ sourceVarsOff
    /\ editVarsOff
    /\ resultVarsOff
    /\ \E r \in 0..(Len(CityIndex) - 1), n \in 0..MaxStore, reversed \in BOOLEAN :
          fstore = storeWindow(r, n, reversed)
    /\ fquery \in FindQueries
    /\ fresult = <<>>
    /\ fscored = <<>>
    /\ fpc = "call"

\* One call of findMatches(fquery) with allCityData = fstore.
Find ==
    /\ fpc = "call"
    /\ fscored' = rankedMatches(fstore, fquery)
    /\ fresult' = findMatches(fstore, fquery)
    /\ fpc' = "done"
    /\ UNCHANGED <<fstore, fquery, uiVars, filterVars, serveVars, loadVars, sourceVars, editVars, resultVars>>

NextFind == Find

SpecFind == InitFind /\ [][NextFind]_vars

----------------------------------------------------------------------------
(* The filter predicates of the browser page and of /api/search            *)
(* (SpecFilter): one record of the data and one request, judged by         *)
(* filterSearchResults and by the endpoint's filter callbacks.             *)

NoDistance == 999999
DefaultDistance == 25
MaxFilters == 2

Digits == "0123456789"
digitValue(c) == (CHOOSE i \in 1..Len(Digits) : charAt(Digits, i) = c) - 1
isDigit(c) == \E i \in 1..Len(Digits) : charAt(Digits, i) = c

\* parseInt(s), radix 10: white space, an optional sign, then the digits up to the
\* first character that is none; <<>> stands for NaN (no digit there).
RECURSIVE digitsValue(_)
digitsValue(s) ==
    IF s = "" THEN 0
    ELSE 10 * digitsValue(SubSeq(s, 1, Len(s) - 1)) + digitValue(charAt(s, Len(s)))

parseInt(s) ==
    LET t      == trimStart(s)
        signed == t # "" /\ charAt(t, 1) \in {"-", "+"}
        body   == IF signed THEN SubSeq(t, 2, Len(t)) ELSE t
        n      == Cardinality({i \in 1..Len(body) :
                                  \A j \in 1..i : isDigit(charAt(body, j))})
        value  == digitsValue(SubSeq(body, 1, n))
    IN  IF n = 0 THEN <<>>
        ELSE IF signed /\ charAt(t, 1) = "-" THEN <<0 - value>>
        ELSE <<value>>

toUpperCase(s) ==
    LET up(c) == IF \E i \in 1..Len(LowerAlpha) : charAt(LowerAlpha, i) = c
                 THEN charAt(UpperAlpha, CHOOSE i \in 1..Len(LowerAlpha) :
                                             charAt(LowerAlpha, i) = c)
                 ELSE c
        RECURSIVE go(_)
        go(i) == IF i > Len(s) THEN "" ELSE up(charAt(s, i)) \o go(i + 1)
    IN  go(1)

\* type.replace(/\s+/g, '-'): every run of white space becomes one hyphen.
replaceSpaces(s) ==
    LET RECURSIVE go(_)
        go(i) ==
            IF i > Len(s) THEN ""
            ELSE IF IsSpace(charAt(s, i))
                 THEN IF i > 1 /\ IsSpace(charAt(s, i - 1)) THEN go(i + 1)
                      ELSE "-" \o go(i + 1)
                 ELSE charAt(s, i) \o go(i + 1)
    IN  go(1)

\* Array.prototype.includes and .some over a sequence.
arrayIncludes(arr, x) == \E i \in 1..Len(arr) : arr[i] = x

\* getStateAbbreviation: the rows of its table for the states of the data here;
\* a name the table lacks is returned as it is.
getStateAbbreviation(stateName) ==
    IF stateName = "Texas" THEN "TX"
    ELSE IF stateName = "Massachusetts" THEN "MA"
    ELSE IF stateName = "Michigan" THEN "MI"
    ELSE IF stateName = "Ohio" THEN "OH"
    ELSE stateName

\* The great-circle formula of calculateDistance, in whole miles, at the points of
\* the data here: a degree of latitude is 69 miles, a degree of longitude at
\* latitude 30 is 60 miles, both together 91 miles.
haversine(lat1, lng1, lat2, lng2) ==
    LET abs(x) == IF x < 0 THEN -x ELSE x
        dLat == abs(lat2 - lat1)
        dLng == abs(lng2 - lng1)
    IN  IF dLat = 0 /\ dLng = 0 THEN 0
        ELSE IF dLat = 0 /\ dLng = 1 THEN 60
        ELSE IF dLat = 1 /\ dLng = 0 THEN 69
        ELSE 91

\* calculateDistance: a coordinate that is 0 is falsy, as an absent one is.
calculateDistance(lat1, lng1, lat2, lng2) ==
    IF lat1 = 0 \/ lng1 = 0 \/ lat2 = 0 \/ lng2 = 0 THEN NoDistance
    ELSE haversine(lat1, lng1, lat2, lng2)

\* ---- filterSearchResults (static/js/search.js), one record at a time ----

\* Relational operators on a value that may be undefined (<<>>): every comparison
\* with undefined is false.
lessThan(v, n) == v # <<>> /\ v[1] < n
greaterThan(v, n) == v # <<>> /\ v[1] > n
atLeast(v, n) == v # <<>> /\ v[1] >= n

cityMatchesQuery(city, query) ==
    \/ query = ""
    \/ includes(toLowerCase(city.name), toLowerCase(query))
    \/ includes(toLowerCase(city.state), toLowerCase(query))

cityMatchesState(city, state) == state = "" \/ city.state_abbr = state

\* Lines 137-144, with city.assisted_living_cost = city.costs.
cityMatchesCost(city, costRange) ==
    LET cost == city.costs
    IN  IF costRange = "" THEN TRUE
        ELSE IF costRange = "under-3000" /\ atLeast(cost, 3000) THEN FALSE
        ELSE IF costRange = "3000-4000"
                /\ (lessThan(cost, 3000) \/ greaterThan(cost, 4000)) THEN FALSE
        ELSE IF costRange = "4000-5000"
                /\ (lessThan(cost, 4000) \/ greaterThan(cost, 5000)) THEN FALSE
        ELSE IF costRange = "5000-6000"
                /\ (lessThan(cost, 5000) \/ greaterThan(cost, 6000)) THEN FALSE
        ELSE IF costRange = "over-6000" /\ lessThan(cost, 6000) THEN FALSE
        ELSE TRUE

\* Lines 147-151. lat and lng are 0 for null.
cityMatchesDistance(city, lat, lng, distance) ==
    IF lat # 0 /\ lng # 0 /\ city.coordinates # <<>>
    THEN calculateDistance(lat, lng, city.coordinates[1].lat, city.coordinates[1].lng)
            <= distance
    ELSE TRUE

facilityMatchesQuery(facility, query) ==
    \/ query = ""
    \/ includes(toLowerCase(facility.name), toLowerCase(query))
    \/ includes(toLowerCase(facility.city), toLowerCase(query))
    \/ includes(toLowerCase(facility.state), toLowerCase(query))

facilityMatchesCareType(facility, careType) ==
    careType = "" \/ arrayIncludes(facility.care_types, careType)

facilityMatchesState(facility, state) == state = "" \/ facility.state = state

facilityMatchesAmenities(facility, amenities) ==
    \A i \in 1..Len(amenities) : arrayIncludes(facility.amenities, amenities[i])

facilityMatchesRating(facility, rating) ==
    rating = "" \/ (parseInt(rating) # <<>> /\ facility.rating >= parseInt(rating)[1])

\* Lines 177-181.
facilityMatchesDistance(facility, lat, lng, distance) ==
    IF lat # 0 /\ lng # 0 /\ facility.coordinates # <<>>
    THEN calculateDistance(lat, lng, facility.coordinates[1].lat,
                           facility.coordinates[1].lng) <= distance
    ELSE TRUE

\* Whether filterSearchResults keeps the record, a city or a facility of searchData.
filterSearchResults(r, query, careType, state, costRange, amenities, rating, lat, lng, distance) ==
    IF r.kind = "city"
    THEN /\ cityMatchesQuery(r, query)
         /\ cityMatchesState(r, state)
         /\ cityMatchesCost(r, costRange)
         /\ cityMatchesDistance(r, lat, lng, distance)
    ELSE /\ facilityMatchesQuery(r, query)
         /\ facilityMatchesCareType(r, careType)
         /\ facilityMatchesState(r, state)
         /\ facilityMatchesAmenities(r, amenities)
         /\ facilityMatchesRating(r, rating)
         /\ facilityMatchesDistance(r, lat, lng, distance)

\* performSearch: the URL parameters as filterSearchResults gets them. An absent
\* distance (0) is DefaultDistance; lat and lng went through parseFloat(..) || null.
performSearch(r, params) ==
    filterSearchResults(r, params.q, params.type, params.state, params.cost,
                        params.amenities, params.rating, params.lat, params.lng,
                        IF params.distance = 0 THEN DefaultDistance
                        ELSE params.distance)

\* ---- /api/search (scripts/page_generation/search_api.js) ----

apiCityNameMatch(city, query) ==
    \/ query = ""
    \/ includes(toLowerCase(city.name), query)
    \/ includes(toLowerCase(city.state), query)

apiFacilityNameMatch(facility, query) ==
    \/ query = ""
    \/ includes(toLowerCase(facility.name), query)
    \/ includes(toLowerCase(facility.city), query)
    \/ includes(toLowerCase(facility.state), query)

apiStateMatch(r, state) == state = "" \/ getStateAbbreviation(r.state) = state

\* For a city, care_types are those of its facilities.
apiCareTypeMatch(r, careType) ==
    \/ careType = ""
    \/ \E i \in 1..Len(r.care_types) :
          replaceSpaces(toLowerCase(r.care_types[i])) = careType

\* Lines 97-113 and 158-174: costs absent leaves costMatch false; cost is
\* monthly_avg || 0.
apiCostMatch(r, costRange) ==
    IF costRange = "" THEN TRUE
    ELSE IF r.costs = <<>> THEN FALSE
    ELSE LET cost == r.costs[1]
         IN  IF costRange = "under-3000" THEN cost < 3000
             ELSE IF costRange = "3000-4000" THEN cost >= 3000 /\ cost < 4000
             ELSE IF costRange = "4000-5000" THEN cost >= 4000 /\ cost < 5000
             ELSE IF costRange = "5000-6000" THEN cost >= 5000 /\ cost < 6000
             ELSE IF costRange = "over-6000" THEN cost >= 6000
             ELSE FALSE

\* Whether the endpoint's filter callbacks keep the record.
apiSearch(r, params) ==
    LET query     == toLowerCase(params.q)
        state     == toUpperCase(params.state)
        careType  == toLowerCase(params.type)
        costRange == toLowerCase(params.cost)
    IN  /\ IF r.kind = "city" THEN apiCityNameMatch(r, query)
           ELSE apiFacilityNameMatch(r, query)
        /\ apiStateMatch(r, state)
        /\ apiCareTypeMatch(r, careType)
        /\ apiCostMatch(r, costRange)

\* ---- the Netlify function (netlify/functions/search.js) ----

netlifyCityQuery(city, query) ==
    \/ query = ""
    \/ includes(toLowerCase(city.name), query)
    \/ includes(toLowerCase(city.state), query)

netlifyCityState(city, stateFilter) ==
    stateFilter = "" \/ toLowerCase(city.state_abbr) = toLowerCase(stateFilter)

netlifyFacilityQuery(facility, query) ==
    \/ query = ""
    \/ includes(toLowerCase(facility.name), query)
    \/ includes(toLowerCase(facility.city), query)
    \/ includes(toLowerCase(facility.state), query)

netlifyFacilityState(facility, stateFilter) ==
    stateFilter = "" \/ toLowerCase(facility.state) = toLowerCase(stateFilter)

netlifyFacilityCareType(facility, careTypeFilter) ==
    \/ careTypeFilter = ""
    \/ \E i \in 1..Len(facility.care_types) :
          includes(toLowerCase(facility.care_types[i]), toLowerCase(careTypeFilter))

\* Whether the function's filters keep the record; the cost parameter is read
\* (line 14) and never used.
netlifySearch(r, params) ==
    LET query == toLowerCase(params.q)
    IN  IF r.kind = "city"
        THEN /\ netlifyCityQuery(r, query)
             /\ netlifyCityState(r, params.state)
        ELSE /\ netlifyFacilityQuery(r, query)
             /\ netlifyFacilityState(r, params.state)
             /\ netlifyFacilityCareType(r, params.type)

\* ---- the records and the requests of a run ----

CostRanges == {"under-3000", "3000-4000", "4000-5000", "5000-6000", "over-6000"}

\* costs: <<>> when the record carries none, else the monthly average (the city's
\* assisted-living cost, the facility's own).
RecordCosts == {<<>>, <<2999>>, <<3000>>, <<4000>>, <<5000>>, <<6000>>}

\* coordinates: <<>> when absent; a latitude of 0 stands for a missing one.
RecordCoordinates ==
    {<<>>, <<[lat |-> 0, lng |-> -97]>>, <<[lat |-> 30, lng |-> -97]>>,
     <<[lat |-> 30, lng |-> -96]>>}

RecordPlaces ==
    {[city |-> "Austin", state |-> "Texas", state_abbr |-> "TX"],
     [city |-> "Boston", state |-> "Massachusetts", state_abbr |-> "MA"]}

CityRecords ==
    {[kind |-> "city", name |-> p.city, city |-> p.city, state |-> p.state,
      state_abbr |-> p.state_abbr, costs |-> c, coordinates |-> g,
      care_types |-> t, rating |-> 0, amenities |-> <<>>] :
        p \in RecordPlaces, c \in RecordCosts, g \in RecordCoordinates,
        t \in {<<>>, <<"Memory Care">>}}

FacilityRecords ==
    {[kind |-> "facility", name |-> "Oak Manor", city |-> p.city, state |-> p.state,
      state_abbr |-> p.state_abbr, costs |-> c, coordinates |-> g,
      care_types |-> t, rating |-> s, amenities |-> a] :
        p \in RecordPlaces, c \in RecordCosts, g \in RecordCoordinates,
        t \in {<<>>, <<"Memory Care">>}, s \in {3, 5}, a \in {<<>>, <<"pool">>}}

\* The user's location: none, a latitude alone, both.
Locations == {<<0, 0>>, <<30, 0>>, <<30, -97>>}

\* The number of filters a request sets.
activeFilters(q, state, type, cost, rating, amenities, loc, distance) ==
    LET set(b) == IF b THEN 1 ELSE 0
    IN  set(q # "") + set(state # "") + set(type # "") + set(cost # "")
        + set(rating # "") + set(amenities # <<>>) + set(loc # <<0, 0>>)
        + set(distance # 0)

\* The URL parameters of a search that sets at most MaxFilters filters.
Requests ==
    {[q |-> q, state |-> state, type |-> type, cost |-> cost, rating |-> rating,
      amenities |-> amenities, lat |-> loc[1], lng |-> loc[2],
      distance |-> distance] :
        <<q, state, type, cost, rating, amenities, loc, distance>> \in
            {x \in {"", "aus"} \X {"", "TX", "tx"} \X {"", "memory-care"}
                    \X (CostRanges \cup {""}) \X {"", "4", "any"}
                    \X {<<>>, <<"pool">>} \X Locations \X {0, 100} :
                activeFilters(x[1], x[2], x[3], x[4], x[5], x[6], x[7], x[8])
                    <= MaxFilters}}

InitFilter ==
    /\ page = "off"
    /\ sessionInit
    /\ findVarsOff
    /\ serveVarsOff
    /\ loadVarsOff
    /\ sourceVarsOff
    /\ editVarsOff
    /\ resultVarsOff
    /\ rec \in CityRecords \cup FacilityRecords
    /\ req \in Requests
    /\ verdict = [browser |-> "pending", api |-> "pending", netlify |-> "pending"]

Kept(keeps) == IF keeps THEN "in" ELSE "out"

\* The browser page filters searchData for the URL.
FilterSearchResults ==
    /\ verdict.browser = "pending"
    /\ verdict' = [verdict EXCEPT !.browser = Kept(performSearch(rec, req))]
    /\ UNCHANGED <<rec, req, uiVars, findVars, serveVars, loadVars, sourceVars, editVars, resultVars>>

\* GET /api/search with the same parameters.
ApiSearch ==
    /\ verdict.api = "pending"
    /\ verdict' = [verdict EXCEPT !.api = Kept(apiSearch(rec, req))]
    /\ UNCHANGED <<rec, req, uiVars, findVars, serveVars, loadVars, sourceVars, editVars, resultVars>>

\* The Netlify function with the same parameters.
NetlifySearch ==
    /\ verdict.netlify = "pending"
    /\ verdict' = [verdict EXCEPT !.netlify = Kept(netlifySearch(rec, req))]
    /\ UNCHANGED <<rec, req, uiVars, findVars, serveVars, loadVars, sourceVars, editVars, resultVars>>

NextFilter == FilterSearchResults \/ ApiSearch \/ NetlifySearch

SpecFilter == InitFilter /\ [][NextFilter]_vars

----------------------------------------------------------------------------
(* The search handlers: /api/search and the Netlify function (SpecServe)   *)

DefaultPage == 1
DefaultLimit == 50
MaxCities == 3
MaxFacilities == 2

\* parsed || d: NaN and 0 are falsy.
orDefault(parsed, d) == IF parsed = <<>> THEN d ELSE IF parsed[1] = 0 THEN d ELSE parsed[1]

\* Math.ceil(a / b) for integers a and b, b # 0.
ceilDiv(a, b) ==
    LET abs(x) == IF x < 0 THEN 0 - x ELSE x
    IN  IF a = 0 THEN 0
        ELSE IF (a > 0) = (b > 0) THEN (abs(a) + abs(b) - 1) \div abs(b)
        ELSE 0 - (abs(a) \div abs(b))

\* Array.prototype.slice(start, end): a negative index counts from the end.
jsSlice(arr, start, end) ==
    LET len == Len(arr)
        rel(k) == IF k < 0 THEN (IF len + k < 0 THEN 0 ELSE len + k) ELSE Min2(k, len)
    IN  SubSeq(arr, rel(start) + 1, rel(end))

\* The result objects of /api/search (lines 121-131 and 181-191).
apiCityResult(city) ==
    [type |-> "city", slug |-> city.slug, name |-> city.name, state |-> city.state,
     population |-> city.population]

apiFacilityResult(facility) ==
    [type |-> "facility", id |-> facility.id, name |-> facility.name,
     city |-> facility.city, state |-> facility.state, rating |-> facility.rating]

compareWithQueryNoExact(a, b, query) ==
    IF a.type = "city" /\ b.type = "facility" THEN -1
    ELSE IF a.type = "facility" /\ b.type = "city" THEN 1
    ELSE IF a.type = "city" THEN b.population - a.population
    ELSE b.rating - a.rating

\* The comparator of lines 199-226.
compareWithQuery(a, b, query) ==
    LET aNameLower == toLowerCase(a.name)
        bNameLower == toLowerCase(b.name)
    IN  IF a.type = "city" /\ b.type = "facility" THEN -1
        ELSE IF a.type = "facility" /\ b.type = "city" THEN 1
        ELSE IF aNameLower = query /\ bNameLower # query THEN -1
        ELSE IF aNameLower # query /\ bNameLower = query THEN 1
        ELSE IF startsWith(aNameLower, query) /\ ~startsWith(bNameLower, query)
             THEN -1
        ELSE IF ~startsWith(aNameLower, query) /\ startsWith(bNameLower, query)
             THEN 1
        ELSE IF a.type = "city" /\ b.type = "city" THEN b.population - a.population
        ELSE IF a.type = "facility" /\ b.type = "facility" THEN b.rating - a.rating
        ELSE 0

\* The comparator of lines 229-238.
compareNoQuery(a, b) ==
    IF a.type = "city" /\ b.type = "city" THEN b.population - a.population
    ELSE IF a.type = "facility" /\ b.type = "facility" THEN b.rating - a.rating
    ELSE IF a.type = "city" THEN -1
    ELSE 1

compareResults(a, b, query) ==
    IF query # "" THEN compareWithQuery(a, b, query) ELSE compareNoQuery(a, b)

insertResultTiesFirst(sorted, e, query) ==
    LET k == Cardinality({i \in 1..Len(sorted) :
                             compareResults(sorted[i], e, query) < 0})
    IN  SubSeq(sorted, 1, k) \o <<e>> \o SubSeq(sorted, k + 1, Len(sorted))

\* allResults.sort(comparator): a stable sort (ECMAScript 2019), here by insertion
\* behind the entries the comparator does not rank after the new one.
insertResult(sorted, e, query) ==
    LET k == Cardinality({i \in 1..Len(sorted) :
                             compareResults(sorted[i], e, query) <= 0})
    IN  SubSeq(sorted, 1, k) \o <<e>> \o SubSeq(sorted, k + 1, Len(sorted))

RECURSIVE sortResults(_, _)
sortResults(s, query) ==
    IF s = <<>> THEN <<>>
    ELSE insertResult(sortResults(SubSeq(s, 1, Len(s) - 1), query), s[Len(s)], query)

\* [...filteredCities, ...filteredFacilities] of lines 71-195.
apiFiltered(data, params) ==
    LET keep(r) == apiSearch(r, params)
        cities == SelectSeq(data.cities, keep)
        facilities == SelectSeq(data.facilities, keep)
    IN  [i \in 1..Len(cities) |-> apiCityResult(cities[i])]
        \o [i \in 1..Len(facilities) |-> apiFacilityResult(facilities[i])]

\* allResults once sorted (lines 195-239).
apiAllResults(data, params) ==
    sortResults(apiFiltered(data, params), toLowerCase(params.q))

apiPage(params) == orDefault(parseInt(params.page), DefaultPage)
apiLimit(params) == orDefault(parseInt(params.limit), DefaultLimit)

paginateNoOffset(ranked, pageNum, limit) == jsSlice(ranked, 0, limit)

\* Lines 68 and 242.
paginate(ranked, pageNum, limit) ==
    LET offset == (pageNum - 1) * limit
    IN  jsSlice(ranked, offset, offset + limit)

\* res.json(..) of lines 245-251, with status 200.
apiSearchResponse(data, params) ==
    LET ranked == apiAllResults(data, params)
        pageNum == apiPage(params)
        limit  == apiLimit(params)
    IN  [statusCode |-> 200,
         body |-> [total |-> Len(ranked), page |-> pageNum, limit |-> limit,
                   pages |-> ceilDiv(Len(ranked), limit),
                   results |-> paginate(ranked, pageNum, limit)]]

\* The result objects of the Netlify function (lines 75-85 and 118-129).
netlifyCityResult(city) ==
    [type |-> "city", slug |-> city.slug, name |-> city.name, state |-> city.state,
     population |-> city.population]

netlifyFacilityResult(facility) ==
    [type |-> "facility", id |-> facility.id, name |-> facility.name,
     city |-> facility.city, state |-> facility.state, rating |-> facility.rating]

\* results of lines 52-130: the cities, then the facilities, in file order.
netlifyResults(data, params) ==
    LET keep(r) == netlifySearch(r, params)
        cities == SelectSeq(data.cities, keep)
        facilities == IF Len(data.facilities) > 0
                      THEN SelectSeq(data.facilities, keep) ELSE <<>>
    IN  [i \in 1..Len(cities) |-> netlifyCityResult(cities[i])]
        \o [i \in 1..Len(facilities) |-> netlifyFacilityResult(facilities[i])]

\* Lines 10-11 and 133-153.
netlifySearchResponse(data, params) ==
    LET results    == netlifyResults(data, params)
        pageNum    == orDefault(parseInt(params.page), DefaultPage)
        limit      == orDefault(parseInt(params.limit), DefaultLimit)
        startIndex == (pageNum - 1) * limit
        endIndex   == startIndex + limit
    IN  [statusCode |-> 200,
         body |-> [total |-> Len(results), page |-> pageNum, limit |-> limit,
                   results |-> jsSlice(results, startIndex, endIndex)]]

\* ---- the data and the requests of a run ----

ServeCity(slug, name, state, abbr, population) ==
    [kind |-> "city", slug |-> slug, name |-> name, city |-> name, state |-> state,
     state_abbr |-> abbr, costs |-> <<>>, care_types |-> <<>>,
     population |-> population]

ServeFacility(id, name, city, state, abbr, rating) ==
    [kind |-> "facility", id |-> id, name |-> name, city |-> city, state |-> state,
     state_abbr |-> abbr, costs |-> <<>>, care_types |-> <<"Memory Care">>,
     rating |-> rating]

CityPool ==
    << ServeCity("austintown-oh", "Austintown", "Ohio", "OH", 29594),
       ServeCity("port-austin-mi", "Port Austin", "Michigan", "MI", 622),
       ServeCity("austin-tx", "Austin", "Texas", "TX", 961855),
       ServeCity("austinburg-oh", "Austinburg", "Ohio", "OH", 29594),
       ServeCity("boston-ma", "Boston", "Massachusetts", "MA", 675647) >>

FacilityPool ==
    << ServeFacility("f1", "Oak Manor", "Austin", "Texas", "TX", 3),
       ServeFacility("f2", "Elm House", "Austin", "Texas", "TX", 3),
       ServeFacility("f3", "Austin Manor", "Austin", "Texas", "TX", 5),
       ServeFacility("f4", "Austin", "Dallas", "Texas", "TX", 4) >>

\* n records of the pool from the r-th on, cyclically, in its order or reversed.
poolWindow(pool, r, n, reversed) ==
    LET at(i) == pool[((r + i - 1) % Len(pool)) + 1]
    IN  [i \in 1..n |-> IF reversed THEN at(n + 1 - i) ELSE at(i)]

PoolWindows(pool, max, orders) ==
    {poolWindow(pool, r, n, reversed) :
        r \in 0..(Len(pool) - 1), n \in 0..max, reversed \in orders}

RawPages == {"", "2", "3", "0", "-1", "abc"}
RawLimits == {"", "1", "2", "0", "-1"}

ServeRequests ==
    [q : {"", "austin"}, state : {""}, type : {""}, cost : {""},
     page : RawPages, limit : RawLimits]

InitServe ==
    /\ page = "off"
    /\ sessionInit
    /\ findVarsOff
    /\ filterVarsOff
    /\ sdata \in [cities : PoolWindows(CityPool, MaxCities, BOOLEAN),
                  facilities : PoolWindows(FacilityPool, MaxFacilities, {FALSE})]
    /\ sreq \in ServeRequests
    /\ allResults = <<>>
    /\ apiResponse = <<>>
    /\ netlifyResponse = <<>>
    /\ loadVarsOff
    /\ sourceVarsOff
    /\ editVarsOff
    /\ resultVarsOff

\* GET /api/search
ApiRequest ==
    /\ apiResponse = <<>>
    /\ allResults' = apiAllResults(sdata, sreq)
    /\ apiResponse' = <<apiSearchResponse(sdata, sreq)>>
    /\ UNCHANGED <<sdata, sreq, netlifyResponse, uiVars, findVars, filterVars,
                   loadVars, sourceVars, editVars, resultVars>>

\* GET /.netlify/functions/search
NetlifyRequest ==
    /\ netlifyResponse = <<>>
    /\ netlifyResponse' = <<netlifySearchResponse(sdata, sreq)>>
    /\ UNCHANGED <<sdata, sreq, allResults, apiResponse, uiVars, findVars, filterVars,
                   loadVars, sourceVars, editVars, resultVars>>

NextServe == ApiRequest \/ NetlifyRequest

SpecServe == InitServe /\ [][NextServe]_vars

----------------------------------------------------------------------------
(* Loading allCityData in the browser (SpecLoad)                           *)

MaxSearches == 2

CityIndexUrl == "/data/city-index.json"
BackupUrl == "/js/search-data.json"

\* The parsed body of /data/city-index.json: an array of cities.
CityIndexJson == allCityData

\* The parsed bodies /js/search-data.json may have: an object with a cities
\* array, or a bare array. cities is <<>> where the object has no such field.
BackupJsons ==
    { [cities |-> <<SubSeq(allCityData, 1, 2)>>, array |-> <<>>],
      [cities |-> <<>>, array |-> SubSeq(allCityData, 1, 2)] }

\* if (data.cities) allCityData = data.cities; else allCityData = data;
backupCityData(data) == IF data.cities # <<>> THEN data.cities[1] ELSE data.array

\* How a fetch(..).then(response.json()) chain may settle.
Outcomes == {"ok", "not ok", "unparseable"}

\* The end of the page's DOMContentLoaded listener: performSearch() if the URL has
\* q, state, type or cost, loadCityData() otherwise.
DomContentLoaded(hasParams) ==
    /\ loadPc = "start"
    /\ IF hasParams
       THEN /\ pending' = pending \cup {[id |-> searches + 1, chain |-> "search"]}
            /\ searches' = searches + 1
            /\ loadPc' = "idle"
            /\ UNCHANGED fetchLog
       ELSE /\ loadPc' = "primary"
            /\ fetchLog' = Append(fetchLog, CityIndexUrl)
            /\ UNCHANGED <<pending, searches>>
    /\ UNCHANGED <<hasSearchInput, cachedCityData, assigned>>
    /\ UNCHANGED <<uiVars, findVars, filterVars, serveVars, sourceVars, editVars, resultVars>>

\* A submit of the search or filter form, or a click on a page link: performSearch()
\* starts a request to the Netlify function.
PerformSearch ==
    /\ loadPc # "start"
    /\ searches < MaxSearches
    /\ pending' = pending \cup {[id |-> searches + 1, chain |-> "search"]}
    /\ searches' = searches + 1
    /\ UNCHANGED <<hasSearchInput, cachedCityData, loadPc, assigned, fetchLog>>
    /\ UNCHANGED <<uiVars, findVars, filterVars, serveVars, sourceVars, editVars, resultVars>>

\* performSearch's request settles: renderSearchResults on success; in the catch,
\* performClientSideSearch if allCityData.length > 0, else a fetch of the city index.
SearchSettles(f, outcome) ==
    /\ f \in pending
    /\ f.chain = "search"
    /\ pending' = IF outcome = "ok" \/ Len(cachedCityData) > 0
                  THEN pending \ {f}
                  ELSE (pending \ {f}) \cup {[id |-> f.id, chain |-> "fallback"]}
    /\ UNCHANGED <<hasSearchInput, cachedCityData, loadPc, searches, assigned,
                   fetchLog>>
    /\ UNCHANGED <<uiVars, findVars, filterVars, serveVars, sourceVars, editVars, resultVars>>

\* The fallback fetch of performSearch settles: allCityData = data, or the error
\* message (the body of a response that is not ok is taken not to parse).
FallbackSettles(f, outcome) ==
    /\ f \in pending
    /\ f.chain = "fallback"
    /\ pending' = pending \ {f}
    /\ IF outcome = "ok"
       THEN /\ cachedCityData' = CityIndexJson
            /\ assigned' = Append(assigned, "performSearch")
       ELSE UNCHANGED <<cachedCityData, assigned>>
    /\ UNCHANGED <<hasSearchInput, loadPc, searches, fetchLog>>
    /\ UNCHANGED <<uiVars, findVars, filterVars, serveVars, sourceVars, editVars, resultVars>>

\* loadCityData's fetch of the city index settles. On success allCityData = data and
\* initializeAutocomplete(), which throws where searchInput is null; the catch of
\* the chain takes that error as it takes a failed load, and fetches the backup.
PrimarySettles(outcome) ==
    /\ loadPc = "primary"
    /\ IF outcome = "ok"
       THEN /\ cachedCityData' = CityIndexJson
            /\ assigned' = Append(assigned, "primary")
       ELSE UNCHANGED <<cachedCityData, assigned>>
    /\ IF outcome = "ok" /\ hasSearchInput
       THEN /\ loadPc' = "loaded"
            /\ UNCHANGED fetchLog
       ELSE /\ loadPc' = "backup"
            /\ fetchLog' = Append(fetchLog, BackupUrl)
    /\ UNCHANGED <<hasSearchInput, pending, searches>>
    /\ UNCHANGED <<uiVars, findVars, filterVars, serveVars, sourceVars, editVars, resultVars>>

\* loadCityData's fetch of the backup settles: the cities of the backup are stored
\* and initializeAutocomplete() runs, or the error is logged; nothing follows.
BackupSettles(outcome, data) ==
    /\ loadPc = "backup"
    /\ IF outcome = "ok"
       THEN /\ cachedCityData' = backupCityData(data)
            /\ assigned' = Append(assigned, "backup")
            /\ loadPc' = "loaded"
       ELSE /\ loadPc' = "failed"
            /\ UNCHANGED <<cachedCityData, assigned>>
    /\ UNCHANGED <<hasSearchInput, pending, searches, fetchLog>>
    /\ UNCHANGED <<uiVars, findVars, filterVars, serveVars, sourceVars, editVars, resultVars>>

InitLoad ==
    /\ page = "off"
    /\ sessionInit
    /\ findVarsOff
    /\ filterVarsOff
    /\ serveVarsOff
    /\ sourceVarsOff
    /\ editVarsOff
    /\ resultVarsOff
    /\ hasSearchInput \in BOOLEAN
    /\ cachedCityData = <<>>
    /\ loadPc = "start"
    /\ pending = {}
    /\ searches = 0
    /\ assigned = <<>>
    /\ fetchLog = <<>>

NextLoad ==
    \/ \E hasParams \in BOOLEAN : DomContentLoaded(hasParams)
    \/ PerformSearch
    \/ \E f \in pending, outcome \in Outcomes : SearchSettles(f, outcome)
    \/ \E f \in pending, outcome \in Outcomes : FallbackSettles(f, outcome)
    \/ \E outcome \in Outcomes : PrimarySettles(outcome)
    \/ \E outcome \in Outcomes, data \in BackupJsons : BackupSettles(outcome, data)

SpecLoad == InitLoad /\ [][NextLoad]_vars

----------------------------------------------------------------------------
(* Loading the data files on the server (SpecSource)                       *)

\* A file is absent, or present with a body JSON.parse accepts or rejects.
FileStates == {"valid", "invalid", "absent"}

\* fs.existsSync(path)
existsSync(state) == state # "absent"

\* The parsed bodies of the files where they are valid.
SearchDataFile ==
    [cities |-> SubSeq(CityPool, 1, 3), facilities |-> SubSeq(FacilityPool, 1, 2)]
CityIndexFile == SubSeq(CityPool, 2, 5)
CombinedDataFile ==
    [cities |-> SubSeq(CityPool, 1, 3), facilities |-> SubSeq(FacilityPool, 1, 2)]

\* JSON.stringify of an error body with statusCode 500.
errorResponse(error, message) ==
    [statusCode |-> 500, body |-> [error |-> error, message |-> message]]

\* The inner try of the Netlify function (lines 22-49): search-data.json if it
\* exists, else city-index.json if it exists; any error thrown, by JSON.parse too,
\* is answered by the catch.
netlifyLoadData(f) ==
    IF existsSync(f.searchData)
    THEN IF f.searchData = "valid"
         THEN [loaded |-> TRUE, data |-> SearchDataFile]
         ELSE [loaded |-> FALSE, message |-> "Unexpected token"]
    ELSE IF existsSync(f.cityIndex)
         THEN IF f.cityIndex = "valid"
              THEN [loaded |-> TRUE,
                    data |-> [cities |-> CityIndexFile, facilities |-> <<>>]]
              ELSE [loaded |-> FALSE, message |-> "Unexpected token"]
         ELSE [loaded |-> FALSE, message |-> "Search data files not found"]

\* exports.handler of netlify/functions/search.js over the files.
netlifyHandler(f, params) ==
    LET load == netlifyLoadData(f)
    IN  IF load.loaded THEN netlifySearchResponse(load.data, params)
        ELSE errorResponse("Failed to load search data", load.message)

\* The filters of the older copy of the function (part_002, lines 48-62).
part002Search(city, params) ==
    LET query == toLowerCase(params.q)
        cityName == toLowerCase(city.name)
        stateName == toLowerCase(city.state)
    IN  /\ query # "" => (includes(cityName, query) \/ includes(stateName, query))
        /\ params.state # "" => stateName = toLowerCase(params.state)

\* Its result objects (lines 74-97).
part002Result(city) ==
    [type |-> "city", slug |-> city.slug, name |-> city.name, state |-> city.state,
     population |-> city.population, assisted_living_cost |-> 0,
     memory_care_cost |-> 0, facility_count |-> 0]

\* Its pagination and response (lines 10-11 and 64-111).
part002SearchResponse(cityData, params) ==
    LET keep(c)    == part002Search(c, params)
        results    == SelectSeq(cityData, keep)
        pageNum    == orDefault(parseInt(params.page), DefaultPage)
        limit      == orDefault(parseInt(params.limit), DefaultLimit)
        startIndex == (pageNum - 1) * limit
        endIndex   == startIndex + limit
        paginated  == jsSlice(results, startIndex, endIndex)
    IN  [statusCode |-> 200,
         body |-> [total |-> Len(results), page |-> pageNum, limit |-> limit,
                   results |-> [i \in 1..Len(paginated) |->
                                   part002Result(paginated[i])]]]

\* exports.handler of part_002 over the files. dataPath is a const: the assignment
\* dataPath = altPath of line 28 throws a TypeError, which the outer catch answers,
\* as it answers the SyntaxError of JSON.parse (stack is left out as in production).
part002Handler(f, params) ==
    IF ~existsSync(f.cityIndex)
    THEN IF existsSync(f.altCityIndex)
         THEN errorResponse("Search function error", "Assignment to constant variable.")
         ELSE errorResponse("Search data not found",
                            "Could not locate the city index file")
    ELSE IF f.cityIndex = "valid"
         THEN part002SearchResponse(CityIndexFile, params)
         ELSE errorResponse("Search function error", "Unexpected token")

\* cityData and facilityData after loadData() of search_api.js (lines 17-51): those
\* of combined_data.json, or the empty objects they started as where reading or
\* parsing it threw. The city index is parsed last and used nowhere.
loadData(f) ==
    IF f.combinedData = "valid" THEN CombinedDataFile
    ELSE [cities |-> <<>>, facilities |-> <<>>]

SourceRequests ==
    [q : {"", "austin"}, state : {""}, type : {""}, cost : {""}, page : {""},
     limit : {""}]

InitSource ==
    /\ page = "off"
    /\ sessionInit
    /\ findVarsOff
    /\ filterVarsOff
    /\ serveVarsOff
    /\ loadVarsOff
    /\ editVarsOff
    /\ resultVarsOff
    /\ files \in [searchData : FileStates, cityIndex : FileStates,
                  altCityIndex : FileStates, combinedData : FileStates,
                  apiCityIndex : FileStates]
    /\ sourceReq \in SourceRequests
    /\ apiStore = <<>>
    /\ sourceResponse = [netlify |-> <<>>, part002 |-> <<>>, api |-> <<>>]

\* The start of the express server: loadData().
LoadData ==
    /\ apiStore = <<>>
    /\ apiStore' = <<loadData(files)>>
    /\ UNCHANGED <<files, sourceReq, sourceResponse>>
    /\ UNCHANGED <<uiVars, findVars, filterVars, serveVars, loadVars, editVars, resultVars>>

\* GET /api/search, answered from what loadData left.
ApiServe ==
    /\ apiStore # <<>>
    /\ sourceResponse.api = <<>>
    /\ sourceResponse' =
          [sourceResponse EXCEPT !.api = <<apiSearchResponse(apiStore[1], sourceReq)>>]
    /\ UNCHANGED <<files, sourceReq, apiStore>>
    /\ UNCHANGED <<uiVars, findVars, filterVars, serveVars, loadVars, editVars, resultVars>>

\* GET /.netlify/functions/search
NetlifyServe ==
    /\ sourceResponse.netlify = <<>>
    /\ sourceResponse' =
          [sourceResponse EXCEPT !.netlify = <<netlifyHandler(files, sourceReq)>>]
    /\ UNCHANGED <<files, sourceReq, apiStore>>
    /\ UNCHANGED <<uiVars, findVars, filterVars, serveVars, loadVars, editVars, resultVars>>

\* The same request to the older copy of the function.
Part002Serve ==
    /\ sourceResponse.part002 = <<>>
    /\ sourceResponse' =
          [sourceResponse EXCEPT !.part002 = <<part002Handler(files, sourceReq)>>]
    /\ UNCHANGED <<files, sourceReq, apiStore>>
    /\ UNCHANGED <<uiVars, findVars, filterVars, serveVars, loadVars, editVars, resultVars>>

NextSource == LoadData \/ ApiServe \/ NetlifyServe \/ Part002Serve

SpecSource == InitSource /\ [][NextSource]_vars

----------------------------------------------------------------------------
(* getEditDistance on pairs of strings (SpecDistance)                      *)

MaxLen == 3

EditAlphabet == {"a", "b"}

\* The strings over the alphabet of at most n characters.
RECURSIVE StringsUpTo(_)
StringsUpTo(n) ==
    IF n = 0 THEN {""}
    ELSE LET shorter == StringsUpTo(n - 1)
         IN  shorter \cup {s \o c : s \in shorter, c \in EditAlphabet}

\* The arguments of a call: the short strings, and a misspelt city name.
EditStrings == StringsUpTo(MaxLen) \cup {"phonix", "phoenix"}

InitDistance ==
    /\ page = "off"
    /\ sessionInit
    /\ findVarsOff
    /\ filterVarsOff
    /\ serveVarsOff
    /\ loadVarsOff
    /\ sourceVarsOff
    /\ resultVarsOff
    /\ editA \in EditStrings
    /\ editB \in EditStrings
    /\ editDistance = <<>>

\* One call getEditDistance(editA, editB).
GetEditDistance ==
    /\ editDistance = <<>>
    /\ editDistance' = <<getEditDistance(editA, editB)>>
    /\ UNCHANGED <<editA, editB>>
    /\ UNCHANGED <<uiVars, findVars, filterVars, serveVars, loadVars, sourceVars,
                   resultVars>>

NextDistance == GetEditDistance

SpecDistance == InitDistance /\ [][NextDistance]_vars

----------------------------------------------------------------------------
(* The results page: performSearch, its fallback and pagination            *)
(* (SpecResults)                                                           *)

RESULTS_PER_PAGE == 50
MaxRequests == 2

\* The sizes the city index may have: empty, three pages, six pages.
IndexSizes == {0, 120, 260}

ResultPlaces ==
    << [name |-> "Austin", state |-> "Texas", abbr |-> "TX"],
       [name |-> "Boston", state |-> "Massachusetts", abbr |-> "MA"],
       [name |-> "Houston", state |-> "Texas", abbr |-> "TX"] >>

indexCity(i) ==
    LET p == ResultPlaces[(i % Len(ResultPlaces)) + 1]
    IN  ServeCity("c" \o ToString(i), p.name, p.state, p.abbr, 1000 + i)

\* The record set of n cities: the body of /data/city-index.json, and what the
\* Netlify function loads.
cityIndex(n) == [i \in 1..n |-> indexCity(i)]

\* What the user may have typed into the search box, and the page parameter a URL
\* may carry (<<>> where it has none).
SearchValues == {"", "Tex"}
UrlPages == {<<>>, <<"99">>, <<"-1">>, <<"abc">>}

slugsOf(results) == [i \in 1..Len(results) |-> results[i].slug]

\* The record sets of a run, built once.
cityIndexes == [n \in IndexSizes |-> cityIndex(n)]

\* The body the Netlify function answers a request of performSearch with.
searchResponseBody(n, q, pageNum) ==
    netlifySearchResponse([cities |-> cityIndexes[n], facilities |-> <<>>],
                          [q |-> q, state |-> "", type |-> "", cost |-> "",
                           page |-> ToString(pageNum),
                           limit |-> ToString(RESULTS_PER_PAGE)]).body

\* performClientSideSearch(query) with allCityData = cities and currentPage = cp:
\* the data it hands to renderSearchResults.
performClientSideSearch(cities, queryArg, cp) ==
    LET query == toLowerCase(queryArg)
        matches(city) == \/ includes(toLowerCase(city.name), query)
                         \/ includes(toLowerCase(city.state), query)
        results == IF query # "" THEN SelectSeq(cities, matches)
                   ELSE jsSlice(cities, 0, RESULTS_PER_PAGE)
        total == Len(results)
        startIndex == (cp - 1) * RESULTS_PER_PAGE
        endIndex == startIndex + RESULTS_PER_PAGE
    IN  [total |-> total, results |-> jsSlice(results, startIndex, endIndex)]

\* The queries and the pages a run asks for, and the answers to them, worked out
\* once: the function's, and the fallback's.
AskedQueries == {trim(v) : v \in SearchValues}
AskedPages == (-1..7) \cup {98, 99}

serverAnswers ==
    [n \in IndexSizes, q \in AskedQueries, p \in AskedPages |->
        searchResponseBody(n, q, p)]

clientAnswers ==
    [n \in IndexSizes, q \in AskedQueries, p \in AskedPages |->
        performClientSideSearch(cityIndexes[n], q, p)]

Max2(x, y) == IF x >= y THEN x ELSE y

\* renderPagination(totalPages) with currentPage = cp: the container it appends.
\* numbers are the page-number buttons, first to last.
renderPagination(totalPages, cp) ==
    LET startPage0 == Max2(1, cp - 2)
        endPage    == Min2(totalPages, startPage0 + 4)
        startPage  == IF endPage - startPage0 < 4 THEN Max2(1, endPage - 4)
                      ELSE startPage0
    IN  [totalPages |-> totalPages,
         prevDisabled |-> cp = 1,
         nextDisabled |-> cp = totalPages,
         numbers |-> [k \in 1..Max2(0, endPage - startPage + 1) |-> startPage + k - 1]]

\* What the request issued last has displayed, <<>> while it has displayed nothing.
latestShown == IF resultEvent = <<>> THEN <<>> ELSE resultEvent[1].latest

\* The record of the step just taken: its kind, the request it belongs to and that
\* request's query, and currentPage and the number of requests issued before it.
noteRequestEvent(kind, id, q, latest) ==
    resultEvent' = <<[kind |-> kind, id |-> id, q |-> q, prePage |-> currentPage,
                      preIssued |-> issued, latest |-> latest]>>

noteEvent(kind, id, latest) == noteRequestEvent(kind, id, "", latest)

\* performSearch() with searchInput.value = value and currentPage = cp: the
\* results container shows "Loading results..." and the request is sent.
resultsPerformSearch(value, cp) ==
    /\ inflight' = inflight \cup {[id |-> issued + 1, q |-> trim(value), page |-> cp,
                                   stage |-> "search"]}
    /\ issued' = issued + 1
    /\ controls' = <<>>

\* renderSearchResults(data): totalResults, the cards of the tabs, and the
\* pagination appended to the results container.
renderSearchResults(data) ==
    /\ totalResults' = data.total
    /\ shown' = slugsOf(data.results)
    /\ controls' = IF data.total > RESULTS_PER_PAGE
                   THEN Append(controls,
                               renderPagination(ceilDiv(data.total, RESULTS_PER_PAGE),
                                                currentPage))
                   ELSE controls

\* What a render for request id leaves as the display of the latest request.
latestAfter(id, data) ==
    IF id = issued THEN <<[total |-> data.total, results |-> slugsOf(data.results)]>>
    ELSE latestShown

\* The end of the DOMContentLoaded listener (lines 933-959): with search parameters
\* in the URL, the form and currentPage are set from them and performSearch() runs;
\* without, loadCityData() fetches the city index.
ResultsPageLoad(hasParams, q, rawPage) ==
    /\ resultEvent = <<>>
    /\ rSize \in IndexSizes
    /\ IF hasParams
       THEN /\ searchValue' = q
            /\ currentPage' = IF rawPage = <<>> THEN currentPage
                              ELSE orDefault(parseInt(rawPage[1]), 1)
            /\ resultsPerformSearch(q, currentPage')
       ELSE /\ inflight' = inflight \cup {[id |-> 0, q |-> "", page |-> currentPage,
                                           stage |-> "load"]}
            /\ UNCHANGED <<searchValue, currentPage, issued, controls>>
    /\ noteEvent("load", 0, <<>>)
    /\ UNCHANGED <<rSize, totalResults, shown, cacheLoaded>>
    /\ UNCHANGED <<uiVars, findVars, filterVars, serveVars, loadVars, sourceVars,
                   editVars>>

\* The user edits the text of the search box.
EditQuery(value) ==
    /\ resultEvent # <<>>
    /\ value # searchValue
    /\ searchValue' = value
    /\ noteEvent("edit", 0, latestShown)
    /\ UNCHANGED <<rSize, currentPage, totalResults, shown, controls, inflight, issued,
                   cacheLoaded>>
    /\ UNCHANGED <<uiVars, findVars, filterVars, serveVars, loadVars, sourceVars,
                   editVars>>

\* A submit of the search form or of the filter form (lines 553-569).
SubmitForm ==
    /\ resultEvent # <<>>
    /\ issued < MaxRequests
    /\ currentPage' = 1
    /\ resultsPerformSearch(searchValue, currentPage')
    /\ noteEvent("submit", issued + 1, <<>>)
    /\ UNCHANGED <<rSize, searchValue, totalResults, shown, cacheLoaded>>
    /\ UNCHANGED <<uiVars, findVars, filterVars, serveVars, loadVars, sourceVars,
                   editVars>>

\* A click on the Previous button of the k-th pagination container; a disabled
\* button runs no handler.
ClickPrevious(k) ==
    /\ k \in 1..Len(controls)
    /\ issued < MaxRequests
    /\ IF ~controls[k].prevDisabled /\ currentPage > 1
       THEN /\ currentPage' = currentPage - 1
            /\ resultsPerformSearch(searchValue, currentPage')
            /\ noteEvent("previous", issued + 1, <<>>)
       ELSE /\ noteEvent("previous", 0, latestShown)
            /\ UNCHANGED <<currentPage, inflight, issued, controls>>
    /\ UNCHANGED <<rSize, searchValue, totalResults, shown, cacheLoaded>>
    /\ UNCHANGED <<uiVars, findVars, filterVars, serveVars, loadVars, sourceVars,
                   editVars>>

\* A click on the Next button of the k-th pagination container.
ClickNext(k) ==
    /\ k \in 1..Len(controls)
    /\ issued < MaxRequests
    /\ IF ~controls[k].nextDisabled /\ currentPage < controls[k].totalPages
       THEN /\ currentPage' = currentPage + 1
            /\ resultsPerformSearch(searchValue, currentPage')
            /\ noteEvent("next", issued + 1, <<>>)
       ELSE /\ noteEvent("next", 0, latestShown)
            /\ UNCHANGED <<currentPage, inflight, issued, controls>>
    /\ UNCHANGED <<rSize, searchValue, totalResults, shown, cacheLoaded>>
    /\ UNCHANGED <<uiVars, findVars, filterVars, serveVars, loadVars, sourceVars,
                   editVars>>

\* A click on the n-th page-number button of the k-th pagination container.
ClickPageNumber(k, n) ==
    /\ k \in 1..Len(controls)
    /\ n \in 1..Len(controls[k].numbers)
    /\ issued < MaxRequests
    /\ LET i == controls[k].numbers[n]
       IN  IF i # currentPage
           THEN /\ currentPage' = i
                /\ resultsPerformSearch(searchValue, currentPage')
                /\ noteEvent("number", issued + 1, <<>>)
           ELSE /\ noteEvent("number", 0, latestShown)
                /\ UNCHANGED <<currentPage, inflight, issued, controls>>
    /\ UNCHANGED <<rSize, searchValue, totalResults, shown, cacheLoaded>>
    /\ UNCHANGED <<uiVars, findVars, filterVars, serveVars, loadVars, sourceVars,
                   editVars>>

\* The request f of performSearch settles. On success renderSearchResults(data);
\* in the catch, performClientSideSearch(query) if allCityData.length > 0, else a
\* fetch of the city index.
SearchResponse(f, outcome) ==
    /\ f \in inflight
    /\ f.stage = "search"
    /\ IF outcome = "ok"
       THEN LET data == serverAnswers[rSize, f.q, f.page]
            IN  /\ renderSearchResults(data)
                /\ inflight' = inflight \ {f}
                /\ noteRequestEvent("server", f.id, f.q, latestAfter(f.id, data))
       ELSE IF cacheLoaded /\ rSize > 0
       THEN LET data == clientAnswers[rSize, f.q, currentPage]
            IN  /\ renderSearchResults(data)
                /\ inflight' = inflight \ {f}
                /\ noteRequestEvent("client", f.id, f.q, latestAfter(f.id, data))
       ELSE /\ inflight' = (inflight \ {f}) \cup {[f EXCEPT !.stage = "index"]}
            /\ noteEvent("catch", f.id, latestShown)
            /\ UNCHANGED <<totalResults, shown, controls>>
    /\ UNCHANGED <<rSize, searchValue, currentPage, issued, cacheLoaded>>
    /\ UNCHANGED <<uiVars, findVars, filterVars, serveVars, loadVars, sourceVars,
                   editVars>>

\* The fetch of the city index in the catch of request f settles: allCityData =
\* data and performClientSideSearch(query), or the error message in the results
\* container.
CityIndexResponse(f, outcome) ==
    /\ f \in inflight
    /\ f.stage = "index"
    /\ inflight' = inflight \ {f}
    /\ IF outcome = "ok"
       THEN LET data == clientAnswers[rSize, f.q, currentPage]
            IN  /\ cacheLoaded' = TRUE
                /\ renderSearchResults(data)
                /\ noteRequestEvent("client", f.id, f.q, latestAfter(f.id, data))
       ELSE /\ controls' = <<>>
            /\ noteEvent("error", f.id, latestShown)
            /\ UNCHANGED <<cacheLoaded, totalResults, shown>>
    /\ UNCHANGED <<rSize, searchValue, currentPage, issued>>
    /\ UNCHANGED <<uiVars, findVars, filterVars, serveVars, loadVars, sourceVars,
                   editVars>>

\* The fetches of loadCityData settle, with the city index stored or not.
CityDataLoaded(f, outcome) ==
    /\ f \in inflight
    /\ f.stage = "load"
    /\ inflight' = inflight \ {f}
    /\ cacheLoaded' = (cacheLoaded \/ outcome = "ok")
    /\ noteEvent("loaded", 0, latestShown)
    /\ UNCHANGED <<rSize, searchValue, currentPage, totalResults, shown, controls,
                   issued>>
    /\ UNCHANGED <<uiVars, findVars, filterVars, serveVars, loadVars, sourceVars,
                   editVars>>

FetchOutcomes == {"ok", "failed"}

InitResults ==
    /\ page = "off"
    /\ sessionInit
    /\ findVarsOff
    /\ filterVarsOff
    /\ serveVarsOff
    /\ loadVarsOff
    /\ sourceVarsOff
    /\ editVarsOff
    /\ rSize \in IndexSizes
    /\ searchValue = ""
    /\ currentPage = 1
    /\ totalResults = 0
    /\ shown = <<>>
    /\ controls = <<>>
    /\ inflight = {}
    /\ issued = 0
    /\ cacheLoaded = FALSE
    /\ resultEvent = <<>>

NextResults ==
    \/ \E hasParams \in BOOLEAN, q \in SearchValues, rawPage \in UrlPages :
          ResultsPageLoad(hasParams, q, rawPage)
    \/ \E value \in SearchValues : EditQuery(value)
    \/ SubmitForm
    \/ \E k \in 1..Len(controls) : ClickPrevious(k)
    \/ \E k \in 1..Len(controls) : ClickNext(k)
    \/ \E k \in 1..Len(controls), n \in 1..5 : ClickPageNumber(k, n)
    \/ \E f \in inflight, outcome \in FetchOutcomes : SearchResponse(f, outcome)
    \/ \E f \in inflight, outcome \in FetchOutcomes : CityIndexResponse(f, outcome)
    \/ \E f \in inflight, outcome \in FetchOutcomes : CityDataLoaded(f, outcome)

SpecResults == InitResults /\ [][NextResults]_vars

----------------------------------------------------------------------------
(* Claims about the autocomplete sessions (Spec)                           *)

IsKey(k) == lastEvent.kind = "keydown" /\ lastEvent.key = k
IsClick(target) == lastEvent.kind = "click" /\ lastEvent.key = target
OnSearch == page = "search"
OnSite == page # "search"

\* C1: debounce. At most one timer is pending; a pending timer carries the value of
\* the most recent input event and comes due only when DebounceWait has passed
\* without an input event; a timer is pending exactly while there are input events
\* processInput has not answered; so every run of processInput answers k >= 1 input
\* events at once, after DebounceWait of quiet, with the value of the last of them.
C1_Debounce ==
    /\ Cardinality(timers) <= 1
    /\ \A t \in timers : /\ t.value = lastInput
                         /\ t.due = 0 => sinceInput >= DebounceWait
    /\ (timers # {}) <=> (inputsSinceEval > 0)
    /\ lastEvent.kind = "timer" =>
          /\ lastEvent.quiet >= DebounceWait
          /\ lastEvent.inputs >= 1
          /\ lastEvent.value = lastInput

\* Three input events less than DebounceWait apart were answered by one run of
\* processInput, with the value of the last.
C1_Witness ==
    /\ lastEvent.kind = "timer"
    /\ lastEvent.inputs = 3
    /\ lastEvent.value = "tex"
    /\ suggestions # <<>>

\* C2 as claimed: right after Escape the list is hidden and no suggestion is
\* focused, and until processInput runs again Down, Up and Enter move no focus and
\* commit nothing.
C2_EscapeDiscards ==
    /\ (OnSearch /\ IsKey("Escape") /\ lastEvent.pre.suggestions # <<>>) =>
          /\ display = "none"
          /\ currentFocus = -1
    /\ (OnSearch /\ lastEvent.kind = "keydown" /\ lastEvent.pre.escaped) =>
          /\ currentFocus = lastEvent.pre.currentFocus
          /\ lastEvent.committed = 0

\* The focus index a Down or Up key leaves, on a list of n items.
WrapDown(f, n) == IF f = n - 1 THEN 0 ELSE f + 1
WrapUp(f, n) == IF f <= 0 THEN n - 1 ELSE f - 1

\* C2 as amended: Escape on a rendered list hides it at once, and it stays hidden
\* and Enter commits nothing until processInput runs again; the suggestions and
\* the focus index are kept, and Down and Up still move the focus index.
C2_EscapeHides ==
    /\ (OnSearch /\ IsKey("Escape") /\ lastEvent.pre.suggestions # <<>>) =>
          /\ display = "none"
          /\ suggestions = lastEvent.pre.suggestions
          /\ currentFocus = lastEvent.pre.currentFocus
    /\ (OnSearch /\ escaped) => display = "none" /\ suggestions # <<>>
    /\ (OnSearch /\ IsKey("Enter") /\ lastEvent.pre.escaped) =>
          /\ lastEvent.committed = 0
          /\ inputValue = lastEvent.pre.inputValue
    /\ (OnSearch /\ IsKey("Down") /\ lastEvent.pre.escaped) =>
          currentFocus = WrapDown(lastEvent.pre.currentFocus, Len(suggestions))
    /\ (OnSearch /\ IsKey("Up") /\ lastEvent.pre.escaped) =>
          currentFocus = WrapUp(lastEvent.pre.currentFocus, Len(suggestions))

\* After Escape, a Down key has moved the focus of the hidden list.
C2_Witness ==
    /\ OnSearch
    /\ IsKey("Down")
    /\ lastEvent.pre.escaped
    /\ display = "none"
    /\ currentFocus # lastEvent.pre.currentFocus

\* C3: Enter on a focused suggestion of the shown list commits that suggestion:
\* the input holds the city's "name, state" (whatever it held before, so a second
\* commit of it changes nothing), the list is hidden, the form is not submitted
\* and no call of processInput is scheduled or cancelled.
C3_EnterCommits ==
    (/\ OnSearch
     /\ IsKey("Enter")
     /\ lastEvent.pre.display = "block"
     /\ lastEvent.pre.currentFocus \in 0..(Len(lastEvent.pre.suggestions) - 1)) =>
        LET c == lastEvent.pre.suggestions[lastEvent.pre.currentFocus + 1] IN
        /\ lastEvent.committed = c
        /\ inputValue = allCityData[c].name \o ", " \o allCityData[c].state
        /\ display = "none"
        /\ ~lastEvent.submitted
        /\ pendingCalls = lastEvent.pre.pending

\* Enter has committed the second suggestion of a list while a call of
\* processInput was pending.
C3_Witness ==
    /\ OnSearch
    /\ IsKey("Enter")
    /\ lastEvent.pre.display = "block"
    /\ lastEvent.pre.currentFocus = 1
    /\ lastEvent.committed = lastEvent.pre.suggestions[2]
    /\ inputValue = "Austin, Texas"
    /\ lastEvent.pre.pending # {}

\* C4 as claimed: a click outside the input and the list hides the list, a click
\* inside either leaves it as it was.
C4_ClickInsideKeeps ==
    /\ (OnSearch /\ IsClick("outside")) => display = "none"
    /\ (OnSite /\ IsClick("outside")) => ~active
    /\ (OnSearch /\ (IsClick("input") \/ IsClick("list"))) =>
          display = lastEvent.pre.display
    /\ (OnSite /\ (IsClick("input") \/ IsClick("list"))) =>
          active = lastEvent.pre.active

\* C4 as amended: a click outside the input and the list hides the list; in the
\* session of static/js/search.js so does every click that is not on the input
\* itself, the list included, and only a click on the input leaves the list as
\* it was; in the site-wide box a click inside the input or the list leaves it.
C4_ClickOutsideHides ==
    /\ (OnSearch /\ (IsClick("outside") \/ IsClick("list"))) => display = "none"
    /\ (OnSearch /\ IsClick("input")) => display = lastEvent.pre.display
    /\ (OnSite /\ IsClick("outside")) => ~active
    /\ (OnSite /\ (IsClick("input") \/ IsClick("list"))) =>
          active = lastEvent.pre.active

\* A click inside the shown list, on no suggestion, has hidden it.
C4_Witness ==
    /\ OnSearch
    /\ IsClick("list")
    /\ lastEvent.pre.display = "block"
    /\ display = "none"

\* C5: on a list of n >= 1 items Down and Up leave the focus index in 0..n-1,
\* Down going from n-1 and from -1 to 0 and Up from 0 and from -1 to n-1, in both
\* sessions; and a list that has just been rendered has no focus (-1).
C5_FocusWraps ==
    /\ (OnSearch /\ IsKey("Down") /\ suggestions # <<>>) =>
          /\ currentFocus \in 0..(Len(suggestions) - 1)
          /\ currentFocus = WrapDown(lastEvent.pre.currentFocus, Len(suggestions))
    /\ (OnSearch /\ IsKey("Up") /\ suggestions # <<>>) =>
          /\ currentFocus \in 0..(Len(suggestions) - 1)
          /\ currentFocus = WrapUp(lastEvent.pre.currentFocus, Len(suggestions))
    /\ (OnSite /\ IsKey("Down") /\ suggestionItems # <<>>) =>
          /\ selectedSuggestionIndex \in 0..(Len(suggestionItems) - 1)
          /\ selectedSuggestionIndex =
                WrapDown(lastEvent.pre.selectedSuggestionIndex, Len(suggestionItems))
    /\ (OnSite /\ IsKey("Up") /\ suggestionItems # <<>>) =>
          /\ selectedSuggestionIndex \in 0..(Len(suggestionItems) - 1)
          /\ selectedSuggestionIndex =
                WrapUp(lastEvent.pre.selectedSuggestionIndex, Len(suggestionItems))
    /\ (OnSearch /\ lastEvent.kind = "timer" /\ suggestions # <<>>) =>
          currentFocus = -1
    /\ (OnSite /\ lastEvent.kind \in {"input", "focus"}
               /\ suggestionItems # lastEvent.pre.suggestionItems
               /\ suggestionItems # <<>>) =>
          selectedSuggestionIndex = -1

\* Down has wrapped from the last of two suggestions to the first.
C5_Witness ==
    /\ OnSearch
    /\ IsKey("Down")
    /\ Len(suggestions) = 2
    /\ lastEvent.pre.currentFocus = 1
    /\ currentFocus = 0

----------------------------------------------------------------------------
(* Claims about findMatches (SpecFind)                                     *)

FindDone == fpc = "done"
findQuery == trim(toLowerCase(fquery))
Returned == {fresult[i] : i \in 1..Len(fresult)}
Candidates == {fscored[k].city : k \in 1..Len(fscored)}

\* The score findMatches gave candidate i.
scoreGiven(i) == fscored[CHOOSE k \in 1..Len(fscored) : fscored[k].city = i].score

\* The score and the matched flag of the i-th city of the store.
storeScore(i) == scoreCity(fstore[i], findQuery).score
Matched == {i \in 1..Len(fstore) : scoreCity(fstore[i], findQuery).matched}

\* City a ranks before city b: a higher score, or the same and earlier in the store.
Before(a, b) ==
    \/ storeScore(a) > storeScore(b)
    \/ storeScore(a) = storeScore(b) /\ a < b

\* C6: findMatches returns cities of the store, each once, at most TopK of them,
\* all of them matched, in non-increasing score order with equal scores in store
\* order; every matched city left out ranks behind every returned one, so the
\* result is the first TopK of the stable score-descending order.
C6_TopTen ==
    FindDone =>
        /\ Len(fresult) <= TopK
        /\ Returned \subseteq Matched
        /\ Cardinality(Returned) = Len(fresult)
        /\ Len(fresult) = Min2(TopK, Cardinality(Matched))
        /\ \A i, j \in 1..Len(fresult) : i < j => Before(fresult[i], fresult[j])
        /\ \A x \in Matched \ Returned : \A r \in Returned : Before(r, x)

\* More than TopK cities matched; the result holds two cities of equal score and
\* two of different scores, and a city left out has the score of the last
\* returned one.
C6_Witness ==
    /\ FindDone
    /\ Len(fscored) > TopK
    /\ Len(fresult) = TopK
    /\ \E x \in Matched \ Returned : storeScore(x) = storeScore(fresult[TopK])
    /\ \E i \in 1..(TopK - 1) : storeScore(fresult[i]) = storeScore(fresult[i + 1])
    /\ \E i \in 1..(TopK - 1) : storeScore(fresult[i]) > storeScore(fresult[i + 1])

\* Some text signal of the scorer holds of the city: exact, prefix or substring of
\* the name, substring of the state, the abbreviation, a token containing the
\* query, a word of the name starting with it, or the fuzzy signal.
HasSignal(city, q) ==
    LET name  == toLowerCase(city.name)
        words == splitWords(name)
    IN  \/ name = q
        \/ startsWith(name, q)
        \/ includes(name, q)
        \/ includes(toLowerCase(city.state), q)
        \/ toLowerCase(city.state_abbr) = q
        \/ \E t \in 1..Len(city.search_tokens) : includes(city.search_tokens[t], q)
        \/ \E w \in 1..Len(words) : startsWith(words[w], q)
        \/ Len(q) > FuzzyMinLength /\ getEditDistance(name, q) <= FuzzyMaxDistance

\* The boosts the city's population and facility count earn.
Boost(city) ==
    (IF city.population > PopulationThreshold THEN W_POPULATION ELSE 0)
    + (IF city.facility_count > FacilityThreshold THEN W_FACILITIES ELSE 0)

\* C7: a city is a candidate exactly if a text signal matched; a candidate's score
\* is positive even without its boosts, so the boosts admit no city; and only
\* candidates are returned.
C7_SignalAdmits ==
    FindDone =>
        \A i \in 1..Len(fstore) :
            /\ (i \in Candidates) <=> HasSignal(fstore[i], findQuery)
            /\ (i \in Candidates) =>
                  /\ scoreGiven(i) > 0
                  /\ scoreGiven(i) - Boost(fstore[i]) > 0
            /\ (i \in Returned) => (i \in Candidates)

\* A city that would earn a boost matched no signal and is no candidate, while
\* another was returned on the fuzzy signal alone.
C7_Witness ==
    /\ FindDone
    /\ \E i \in 1..Len(fstore) : Boost(fstore[i]) > 0 /\ i \notin Candidates
    /\ \E j \in Returned : scoreGiven(j) = W_FUZZY

\* City{name: "Austin", state: "Texas"} without search tokens or boosts.
IsPlainAustin(city) ==
    /\ city.name = "Austin"
    /\ city.state = "Texas"
    /\ city.search_tokens = <<>>
    /\ city.population <= PopulationThreshold
    /\ city.facility_count <= FacilityThreshold

\* C8 as claimed: the query "austin" scores that city 140, the exact match and the
\* word-boundary bonus.
C8_AustinScores140 ==
    (FindDone /\ findQuery = "austin") =>
        \A i \in 1..Len(fstore) :
            IsPlainAustin(fstore[i]) =>
                i \in Candidates /\ scoreGiven(i) = W_EXACT + W_WORD_EXACT

\* C8 as amended: the query "austin" scores that city 215: the exact match, the
\* prefix and the substring signals, which an exact match fires as well, and the
\* word-boundary bonus.
C8_AustinScores215 ==
    (FindDone /\ findQuery = "austin") =>
        \A i \in 1..Len(fstore) :
            IsPlainAustin(fstore[i]) =>
                /\ i \in Candidates
                /\ scoreGiven(i) = W_EXACT + W_PREFIX + W_CONTAINS + W_WORD_EXACT
                /\ scoreGiven(i) = 215

\* findMatches("austin") has returned that city, first.
C8_Witness ==
    /\ FindDone
    /\ fquery = "austin"
    /\ fresult # <<>>
    /\ IsPlainAustin(fstore[fresult[1]])
    /\ fscored[1].city = fresult[1]

----------------------------------------------------------------------------
(* Claims about the filter predicates (SpecFilter)                         *)

\* The cost brackets as the claim reads them: the three middle ones closed at
\* both ends.
InBracket(costRange, cost) ==
    IF costRange = "under-3000" THEN cost < 3000
    ELSE IF costRange = "3000-4000" THEN 3000 <= cost /\ cost <= 4000
    ELSE IF costRange = "4000-5000" THEN 4000 <= cost /\ cost <= 5000
    ELSE IF costRange = "5000-6000" THEN 5000 <= cost /\ cost <= 6000
    ELSE cost >= 6000

\* The request sets the cost filter and no other.
OnlyCostFilter ==
    /\ req.cost \in CostRanges
    /\ req.q = "" /\ req.state = "" /\ req.type = "" /\ req.rating = ""
    /\ req.amenities = <<>> /\ req.lat = 0 /\ req.lng = 0 /\ req.distance = 0

\* C9 as claimed: in the browser filter and in /api/search alike, a city or a
\* facility that carries a cost passes a cost bracket exactly if its cost lies in
\* the bracket, the middle brackets closed at both ends.
C9_InclusiveBrackets ==
    \A impl \in {"browser", "api"} :
        (verdict[impl] # "pending" /\ OnlyCostFilter /\ rec.costs # <<>>) =>
            (verdict[impl] = "in" <=> InBracket(req.cost, rec.costs[1]))

\* C10 as claimed: with the user's latitude and longitude given,
\* filterSearchResults keeps no city and no facility that has no coordinates.
C10_GeoFailClosed ==
    (verdict.browser # "pending" /\ req.lat # 0 /\ req.lng # 0
        /\ rec.coordinates = <<>>) =>
        verdict.browser = "out"

\* The request sets the state filter and no other.
OnlyStateFilter ==
    /\ req.state # ""
    /\ req.q = "" /\ req.type = "" /\ req.cost = "" /\ req.rating = ""
    /\ req.amenities = <<>> /\ req.lat = 0 /\ req.lng = 0 /\ req.distance = 0

\* C11 as claimed: in the browser filter, the Netlify function and /api/search
\* alike, a city or a facility passes the state filter exactly if its two-letter
\* state abbreviation is the supplied value, letter case ignored.
C11_StateAbbreviation ==
    \A impl \in {"browser", "netlify", "api"} :
        (verdict[impl] # "pending" /\ OnlyStateFilter) =>
            (verdict[impl] = "in" <=> toUpperCase(req.state) = rec.state_abbr)

----------------------------------------------------------------------------
(* Claims about the search handlers (SpecServe)                            *)

ApiDone == apiResponse # <<>>
NetlifyDone == netlifyResponse # <<>>
serveQuery == toLowerCase(sreq.q)
IsExact(r) == toLowerCase(r.name) = serveQuery
IsPrefix(r) == startsWith(toLowerCase(r.name), serveQuery)
\* The number a type is ordered by: a city's population, a facility's rating.
OrderKey(r) == IF r.type = "city" THEN r.population ELSE r.rating

RankedEqual(a, b) ==
    /\ a.type = b.type
    /\ serveQuery # "" => (IsExact(a) = IsExact(b) /\ IsPrefix(a) = IsPrefix(b))
    /\ OrderKey(a) = OrderKey(b)

\* The place of a result in [...filteredCities, ...filteredFacilities].
InputPlace(r) ==
    LET input == apiFiltered(sdata, sreq)
    IN  CHOOSE k \in 1..Len(input) : input[k] = r

Responses == {apiResponse[i] : i \in 1..Len(apiResponse)}
                 \cup {netlifyResponse[i] : i \in 1..Len(netlifyResponse)}

\* C14 as claimed: every successful response, of /api/search and of the Netlify
\* function, has the fields total, page, limit, pages and results; total counts
\* the candidates before pagination and pages is ceil(total / limit), 0 when
\* total is 0.
C14_ResponseShape ==
    /\ \A resp \in Responses :
          resp.statusCode = 200 =>
              /\ DOMAIN resp.body = {"total", "page", "limit", "pages", "results"}
              /\ resp.body.limit >= 1 =>
                    /\ resp.body.pages * resp.body.limit >= resp.body.total
                    /\ (resp.body.pages - 1) * resp.body.limit < resp.body.total
              /\ resp.body.total = 0 => resp.body.pages = 0
    /\ ApiDone => apiResponse[1].body.total = Len(allResults)
    /\ NetlifyDone =>
          netlifyResponse[1].body.total = Len(netlifyResults(sdata, sreq))

\* C15: for a limit L >= 1 and a page p >= 1, /api/search answers with status 200,
\* the total of the ranked list and the items at places (p-1)*L+1 .. min(p*L,
\* total) of it, in its order: no item for a page behind the last, at least one
\* for every page up to it.
C15_PageSlices ==
    (ApiDone /\ apiResponse[1].body.limit >= 1 /\ apiResponse[1].body.page >= 1) =>
        LET body  == apiResponse[1].body
            first == (body.page - 1) * body.limit
            last  == Min2(body.page * body.limit, body.total)
        IN  /\ apiResponse[1].statusCode = 200
            /\ body.total = Len(allResults)
            /\ body.results = [i \in 1..(last - first) |-> allResults[first + i]]
            /\ body.page > body.pages => body.results = <<>>
            /\ body.page <= body.pages => body.results # <<>>

\* Page 2 of a ranked list of three items, two to the page, holds the third alone.
C15_Witness ==
    /\ ApiDone
    /\ apiResponse[1].body.page = 2
    /\ apiResponse[1].body.limit = 2
    /\ apiResponse[1].body.total = 3
    /\ apiResponse[1].body.pages = 2
    /\ apiResponse[1].body.results = <<allResults[3]>>

\* C16 as claimed: whatever the raw page and limit, the effective page and limit
\* are at least 1, the slice starts at an index of at least 0 and the response
\* holds at most limit results.
C16_EffectivePaging ==
    \A resp \in Responses :
        /\ resp.body.page >= 1
        /\ resp.body.limit >= 1
        /\ (resp.body.page - 1) * resp.body.limit >= 0
        /\ Len(resp.body.results) <= resp.body.limit

----------------------------------------------------------------------------
(* Claims about the loading of allCityData (SpecLoad)                      *)

\* How often loadCityData has fetched the URL.
FetchCount(url) == Cardinality({i \in 1..Len(fetchLog) : fetchLog[i] = url})

\* C17 as claimed: allCityData is assigned a loaded record set at most once in a
\* page session, whatever the interleaving of loadCityData and of performSearch
\* calls whose request failed.
C17_PopulatedOnce == Len(assigned) <= 1

\* C18 as claimed: a call of loadCityData fetches the primary source exactly once
\* and the backup at most once, the backup only when the primary load failed and
\* never after the primary data was stored, and nothing more once it is loaded
\* or failed.
C18_OneShotFallback ==
    /\ loadPc \in {"primary", "backup", "loaded", "failed"} =>
          /\ FetchCount(CityIndexUrl) = 1
          /\ FetchCount(BackupUrl) <= 1
          /\ Len(fetchLog) = FetchCount(CityIndexUrl) + FetchCount(BackupUrl)
    /\ FetchCount(BackupUrl) > 0 => \A i \in 1..Len(assigned) : assigned[i] # "primary"
    /\ loadPc = "backup" => FetchCount(BackupUrl) = 1

----------------------------------------------------------------------------
(* Claims about the server's data files (SpecSource)                       *)

\* C19 as claimed: where a function's primary file is absent or unparseable and
\* its secondary file is valid, the request is answered with status 200 from the
\* secondary file (the Netlify function: search-data.json, then city-index.json;
\* its older copy: city-index.json, then the alternate city-index.json).
C19_FallsBackToSecondary ==
    /\ (/\ sourceResponse.netlify # <<>>
        /\ files.searchData # "valid"
        /\ files.cityIndex = "valid") =>
          sourceResponse.netlify[1] =
              netlifySearchResponse([cities |-> CityIndexFile, facilities |-> <<>>],
                                    sourceReq)
    /\ (/\ sourceResponse.part002 # <<>>
        /\ files.cityIndex # "valid"
        /\ files.altCityIndex = "valid") =>
          sourceResponse.part002[1] = part002SearchResponse(CityIndexFile, sourceReq)

\* C20 as claimed: where none of a variant's data files can be loaded, its answer
\* is an error object with the fields error and message, never a success.
C20_StructuredError ==
    LET IsError(resp) == /\ resp.statusCode # 200
                         /\ {"error", "message"} \subseteq DOMAIN resp.body
    IN  /\ (/\ sourceResponse.netlify # <<>>
            /\ files.searchData # "valid"
            /\ files.cityIndex # "valid") => IsError(sourceResponse.netlify[1])
        /\ (/\ sourceResponse.part002 # <<>>
            /\ files.cityIndex # "valid"
            /\ files.altCityIndex # "valid") => IsError(sourceResponse.part002[1])
        /\ (/\ sourceResponse.api # <<>>
            /\ files.combinedData # "valid") => IsError(sourceResponse.api[1])

----------------------------------------------------------------------------
(* Claims about lenient parsing and missing fields (SpecFilter)            *)

\* C21 as claimed: a rating that does not parse as a number applies no rating
\* floor: the browser's filter decides on the record as it does without rating.
C21_LenientRating ==
    (verdict.browser # "pending" /\ req.rating # "" /\ parseInt(req.rating) = <<>>) =>
        verdict.browser = Kept(performSearch(rec, [req EXCEPT !.rating = ""]))

\* C22 as claimed: the browser filter and /api/search evaluate a record without a
\* cost as one of cost 0, so that it passes under-3000 and no other bracket, and
\* a record without care types fails every care-type filter.
C22_MissingFieldDefaults ==
    \A impl \in {"browser", "api"} :
        /\ (verdict[impl] # "pending" /\ OnlyCostFilter /\ rec.costs = <<>>) =>
               (verdict[impl] = "in" <=> InBracket(req.cost, 0))
        /\ (verdict[impl] # "pending" /\ rec.kind = "facility" /\ req.type # ""
                /\ rec.care_types = <<>>) => verdict[impl] = "out"

----------------------------------------------------------------------------
(* Further claims about the autocomplete sessions (Spec)                   *)

\* C23: when processInput runs with a trimmed, lower-cased value of fewer than
\* MinQueryLength characters, the list it leaves is empty and hidden, whatever
\* list was shown before and whatever findMatches would return for the value.
C23_ShortInputIdle ==
    (OnSearch /\ lastEvent.kind = "timer" /\ Len(lastEvent.value) < MinQueryLength) =>
        /\ suggestions = <<>>
        /\ display = "none"

\* processInput ran with "a", which findMatches would answer with cities, while a
\* list was shown; the list is gone.
C23_Witness ==
    /\ OnSearch
    /\ lastEvent.kind = "timer"
    /\ lastEvent.value = "a"
    /\ findMatches(allCityData, "a") # <<>>
    /\ lastEvent.pre.suggestions # <<>>
    /\ lastEvent.pre.display = "block"
    /\ suggestions = <<>>
    /\ display = "none"

----------------------------------------------------------------------------
(* Further claims about findMatches (SpecFind)                             *)

\* One of the signals other than the fuzzy one holds of the city.
HasTextSignal(city, q) ==
    LET name  == toLowerCase(city.name)
        words == splitWords(name)
    IN  \/ includes(name, q)
        \/ includes(toLowerCase(city.state), q)
        \/ toLowerCase(city.state_abbr) = q
        \/ \E t \in 1..Len(city.search_tokens) : includes(city.search_tokens[t], q)
        \/ \E w \in 1..Len(words) : startsWith(words[w], q)

\* The city is due the fuzzy weight: no other signal, a query of more than three
\* characters, an edit distance of at most two between the name and the query.
FuzzyDue(city, q) ==
    /\ ~HasTextSignal(city, q)
    /\ Len(q) > 3
    /\ getEditDistance(toLowerCase(city.name), q) <= 2

\* C24: a city without another signal is a candidate exactly if it is due the
\* fuzzy weight, and then scores 5 and its boosts: 5, 8, 10 or 13; a city with
\* another signal scores the weights of its signals and its boosts, without the
\* fuzzy weight.
C24_FuzzyLastResort ==
    FindDone =>
        \A i \in 1..Len(fstore) :
            IF HasTextSignal(fstore[i], findQuery)
            THEN /\ i \in Candidates
                 /\ scoreGiven(i) =
                       SumSeq(textSignals(fstore[i], findQuery)) + Boost(fstore[i])
            ELSE /\ (i \in Candidates) <=> FuzzyDue(fstore[i], findQuery)
                 /\ (i \in Candidates) =>
                       /\ scoreGiven(i) = 5 + Boost(fstore[i])
                       /\ scoreGiven(i) \in {5, 8, 10, 13}

\* The query "hoston" matched Houston and Boston on the fuzzy signal alone, one
\* with both boosts and one with none, and left another city of the store out.
C24_Witness ==
    /\ FindDone
    /\ findQuery = "hoston"
    /\ \E i \in Candidates : fstore[i].name = "Houston" /\ scoreGiven(i) = 13
    /\ \E i \in Candidates : fstore[i].name = "Boston" /\ scoreGiven(i) = 5
    /\ \E i \in 1..Len(fstore) : i \notin Candidates

----------------------------------------------------------------------------
(* Claims about getEditDistance (SpecDistance)                             *)

\* The Levenshtein distance by its recurrence on the strings without their last
\* characters: insertion, deletion and substitution cost 1 each.
RECURSIVE Levenshtein(_, _)
Levenshtein(a, b) ==
    IF Len(a) = 0 THEN Len(b)
    ELSE IF Len(b) = 0 THEN Len(a)
    ELSE LET a1 == SubSeq(a, 1, Len(a) - 1)
             b1 == SubSeq(b, 1, Len(b) - 1)
             same == charAt(a, Len(a)) = charAt(b, Len(b))
             least(S) == CHOOSE x \in S : \A y \in S : x <= y
         IN  least({Levenshtein(a1, b) + 1, Levenshtein(a, b1) + 1,
                    Levenshtein(a1, b1) + (IF same THEN 0 ELSE 1)})

\* C25: getEditDistance(a, b) is the Levenshtein distance of a and b, an empty
\* string included; it is the same for (b, a), and 0 exactly if a = b; between
\* "phonix" and "phoenix" it is 1.
C25_Levenshtein ==
    editDistance # <<>> =>
        /\ editDistance[1] = Levenshtein(editA, editB)
        /\ editDistance[1] = getEditDistance(editB, editA)
        /\ (editDistance[1] = 0) <=> (editA = editB)
        /\ (editA = "phonix" /\ editB = "phoenix") => editDistance[1] = 1

C25_Witness ==
    /\ editA = "phonix"
    /\ editB = "phoenix"
    /\ editDistance = <<1>>

----------------------------------------------------------------------------
(* Claims about the site-wide suggestion box (Spec)                        *)

\* C26 as claimed: a suggestion Enter commits in the site-wide box is one of the
\* list shown at that moment, which is the list of the input's current value.
C26_EnterCommitsShown ==
    (OnSite /\ IsKey("Enter") /\ lastEvent.committed # 0) =>
        /\ lastEvent.pre.active
        /\ \E i \in 1..Len(matchingSuggestions(lastEvent.pre.inputValue)) :
              matchingSuggestions(lastEvent.pre.inputValue)[i] = lastEvent.committed

\* The handler that ran last forced the search page's list closed: Escape over a
\* list, a click outside the input, or the commit of a suggestion.
ForcedIdle ==
    \/ IsKey("Escape") /\ lastEvent.pre.suggestions # <<>>
    \/ IsClick("outside")
    \/ lastEvent.committed # 0

\* C27 as claimed: when processInput runs next after the list was forced closed,
\* with no input event in between (its timer was pending at that moment), it does
\* not show the list.
C27_NoReopen ==
    [][(OnSearch /\ ForcedIdle /\ lastEvent'.kind = "timer") => display' # "block"]_vars

----------------------------------------------------------------------------
(* Claims about the results page (SpecResults)                             *)

\* C28: once every response of the overlapping performSearch requests has arrived,
\* the results shown and totalResults are those of the request issued last.
C28_LatestRequestShown ==
    (inflight = {} /\ issued > 0 /\ latestShown # <<>>) =>
        /\ shown = latestShown[1].results
        /\ totalResults = latestShown[1].total

\* C29: currentPage is within 1..totalPages of the controls rendered last; a submit
\* sends its request with page 1; Previous at page 1 and Next at the last page
\* change nothing and send nothing; the page-number buttons are at most 5
\* consecutive numbers within 1..totalPages, currentPage among them.
C29_PaginationState ==
    /\ controls # <<>> => currentPage \in 1..controls[Len(controls)].totalPages
    /\ (resultEvent # <<>> /\ resultEvent[1].kind = "submit") =>
          \E f \in inflight : f.id = issued /\ f.page = 1
    /\ (resultEvent # <<>> /\ resultEvent[1].kind = "previous"
          /\ resultEvent[1].prePage = 1) =>
          currentPage = 1 /\ issued = resultEvent[1].preIssued
    /\ (resultEvent # <<>> /\ resultEvent[1].kind = "next" /\ controls # <<>>
          /\ resultEvent[1].prePage = controls[Len(controls)].totalPages) =>
          currentPage = resultEvent[1].prePage /\ issued = resultEvent[1].preIssued
    /\ \A k \in 1..Len(controls) :
          LET numbers == controls[k].numbers
          IN  /\ Len(numbers) <= 5
              /\ \A n \in 1..Len(numbers) : numbers[n] \in 1..controls[k].totalPages
              /\ \A n \in 2..Len(numbers) : numbers[n] = numbers[n - 1] + 1
              /\ \E n \in 1..Len(numbers) : numbers[n] = currentPage

\* C30: a render of performClientSideSearch reports as total the number of cities
\* of the record set that match the query, all of them for the empty query, and
\* shows for currentPage the cities the Netlify function returns for the same
\* query and page.
C30_FallbackMatchesFunction ==
    (resultEvent # <<>> /\ resultEvent[1].kind = "client") =>
        LET query == toLowerCase(resultEvent[1].q)
            cities == cityIndexes[rSize]
            matching == {i \in 1..rSize :
                            \/ query = ""
                            \/ includes(toLowerCase(cities[i].name), query)
                            \/ includes(toLowerCase(cities[i].state), query)}
        IN  /\ totalResults = Cardinality(matching)
            /\ shown = slugsOf(serverAnswers[rSize, resultEvent[1].q, currentPage].results)

====
